---- MODULE Spec2Model ----
(***************************************************************************)
(* Model of the siegfried chess engine: bitboard primitives, attack masks  *)
(* and maps, Position::evaluate, Position::make_move and the random-game   *)
(* driver of main.rs.                                                      *)
(*                                                                         *)
(* A Bitboard (u64) is modelled as the set of its set bit indices, a       *)
(* subset of 0..63; shifts drop the bits that leave the 64-bit word.       *)
(* An Option<T> is a set with at most one element: None = {} and           *)
(* Some(x) = {x}.  A Vec<T> is a sequence.                                 *)
(***************************************************************************)
EXTENDS Integers, Sequences, FiniteSets, TLC

(***************************************************************************)
(* Option<T>                                                               *)
(***************************************************************************)
None == {}
Some(x) == {x}
is_some(o) == o # {}
is_none(o) == o = {}
unwrap(o) == CHOOSE x \in o : TRUE

(***************************************************************************)
(* types.rs                                                                *)
(***************************************************************************)
WHITE == 0
BLACK == 1
Not(side) == IF side = WHITE THEN BLACK ELSE WHITE

PAWN == 0
KNIGHT == 1
BISHOP == 2
ROOK == 3
QUEEN == 4
KING == 5

KING_SIDE == 0
QUEEN_SIDE == 1

CHECKMATE == 0
CHECK == 1
DRAW == 2
ONGOING == 3
\* position.rs and main.rs spell the ongoing state GameState::IN_PROGRESS
IN_PROGRESS == ONGOING

Squares == 0..63
get_rank(sq) == sq \div 8
get_file(sq) == sq % 8

(***************************************************************************)
(* bitboard.rs                                                             *)
(***************************************************************************)
EMPTY == {}
Shl(bb, n) == {s + n : s \in bb} \cap Squares
Shr(bb, n) == {s - n : s \in bb} \cap Squares

FILE_ABB == {s \in Squares : s % 8 = 0}
FILE_BBB == Shl(FILE_ABB, 1)
FILE_GBB == Shl(FILE_ABB, 6)
FILE_HBB == Shl(FILE_ABB, 7)
RANK_1BB == 0..7
RANK_2BB == Shl(RANK_1BB, 8)
RANK_7BB == Shl(RANK_1BB, 48)
RANK_8BB == Shl(RANK_1BB, 56)
NOT_FILE_ABB == Squares \ FILE_ABB
NOT_FILE_HBB == Squares \ FILE_HBB
NOT_RANK_1BB == Squares \ RANK_1BB
NOT_RANK_8BB == Squares \ RANK_8BB
NOT_OUTER == NOT_FILE_ABB \cap NOT_FILE_HBB \cap NOT_RANK_1BB \cap NOT_RANK_8BB

\* 0x60, 0xE, 0x6000000000000000, 0xE00000000000000
WHITE_KINGSIDE_CASTLE == {5, 6}
WHITE_QUEENSIDE_CASTLE == {1, 2, 3}
BLACK_KINGSIDE_CASTLE == {61, 62}
BLACK_QUEENSIDE_CASTLE == {57, 58, 59}

set_bit(bb, square) == bb \cup {square}
unset_bit(bb, square) == bb \ {square}
from_square(square) == {square}
\* u64::trailing_zeros: 64 on the empty board
to_square(bb) == IF bb = {} THEN 64 ELSE CHOOSE s \in bb : \A t \in bb : s <= t

\* The loop of pop_lsb calls: the squares in ascending order
RECURSIVE get_squares(_)
get_squares(bb) ==
    IF bb = {} THEN <<>>
    ELSE LET lsb == to_square(bb)
         IN  <<lsb>> \o get_squares(bb \ {lsb})

\* <u64 as From<u8>>::from, which position.rs calls as Bitboard::from(square):
\* the numeric conversion, so the bits of the result are the binary digits of
\* the square index
Bitboard_from(n) == {i \in 0..7 : (n \div (2 ^ i)) % 2 = 1}

(***************************************************************************)
(* masks.rs                                                                *)
(***************************************************************************)
NE_CORNER == RANK_8BB \cup FILE_HBB
NW_CORNER == RANK_8BB \cup FILE_ABB
SW_CORNER == RANK_1BB \cup FILE_ABB
SE_CORNER == RANK_1BB \cup FILE_HBB

\* for x in 1..8 { ray = bb << / >> (step * x); acc |= ray;
\*                 if ray & stop != 0 || ray & occupancy != 0 { break } }
RECURSIVE RayLoop(_, _, _, _, _, _)
RayLoop(bb, step, left, stop, occupancy, x) ==
    IF x > 7 THEN {}
    ELSE LET ray == IF left THEN Shl(bb, step * x) ELSE Shr(bb, step * x)
         IN  ray \cup (IF ray \cap stop # {} \/ ray \cap occupancy # {}
                       THEN {}
                       ELSE RayLoop(bb, step, left, stop, occupancy, x + 1))

\* if bb & guard == 0 { the loop }
Ray(bb, guard, step, left, stop, occupancy) ==
    IF bb \cap guard = {} THEN RayLoop(bb, step, left, stop, occupancy, 1) ELSE {}

get_file_mask(square) ==
    LET bb == from_square(square)
    IN  Ray(bb, RANK_8BB, 8, TRUE, RANK_8BB, {}) \cup Ray(bb, RANK_1BB, 8, FALSE, RANK_1BB, {})

get_rank_mask(square) ==
    LET bb == from_square(square)
    IN  Ray(bb, FILE_ABB, 1, FALSE, FILE_ABB, {}) \cup Ray(bb, FILE_HBB, 1, TRUE, FILE_HBB, {})

get_diagonal_descending_mask(square) ==
    LET bb == from_square(square)
    IN  Ray(bb, NW_CORNER, 7, TRUE, NW_CORNER, {}) \cup Ray(bb, SE_CORNER, 7, FALSE, SE_CORNER, {})

get_diagonal_ascending_mask(square) ==
    LET bb == from_square(square)
    IN  Ray(bb, SW_CORNER, 9, FALSE, SW_CORNER, {}) \cup Ray(bb, NE_CORNER, 9, TRUE, NE_CORNER, {})

mask_pawn_attacks(side, square) ==
    LET pawn == from_square(square)
    IN  IF side = WHITE
        THEN (IF pawn \cap FILE_HBB = {} THEN Shl(pawn, 9) ELSE {})
             \cup (IF pawn \cap FILE_ABB = {} THEN Shl(pawn, 7) ELSE {})
        ELSE (IF pawn \cap FILE_ABB = {} THEN Shr(pawn, 9) ELSE {})
             \cup (IF pawn \cap FILE_HBB = {} THEN Shr(pawn, 7) ELSE {})

mask_knight_attacks(square) ==
    LET knight == from_square(square)
    IN  (IF knight \cap FILE_HBB = {}
         THEN Shl(knight, 17) \cup Shr(knight, 15)
              \cup (IF knight \cap FILE_GBB = {}
                    THEN Shl(knight, 10) \cup Shr(knight, 6) ELSE {})
         ELSE {})
        \cup
        (IF knight \cap FILE_ABB = {}
         THEN Shr(knight, 17) \cup Shl(knight, 15)
              \cup (IF knight \cap FILE_BBB = {}
                    THEN Shr(knight, 10) \cup Shl(knight, 6) ELSE {})
         ELSE {})

mask_bishop_attacks(square, occupancy) ==
    LET bishop == from_square(square)
    IN  Ray(bishop, NE_CORNER, 9, TRUE, NE_CORNER, occupancy)
        \cup Ray(bishop, NW_CORNER, 7, TRUE, NW_CORNER, occupancy)
        \cup Ray(bishop, SW_CORNER, 9, FALSE, SW_CORNER, occupancy)
        \cup Ray(bishop, SE_CORNER, 7, FALSE, SE_CORNER, occupancy)

\* the SOUTH loop tests RANK_8BB where RANK_1BB was meant; a ray shifted below
\* rank 1 is the empty board, so the loop only runs on without adding bits
mask_rook_attacks(square, occupancy) ==
    LET rook == from_square(square)
    IN  Ray(rook, RANK_8BB, 8, TRUE, RANK_8BB, occupancy)
        \cup Ray(rook, FILE_ABB, 1, FALSE, FILE_ABB, occupancy)
        \cup Ray(rook, RANK_1BB, 8, FALSE, RANK_8BB, occupancy)
        \cup Ray(rook, FILE_HBB, 1, TRUE, FILE_HBB, occupancy)

mask_king_attacks(square) ==
    LET king == from_square(square)
    IN  (IF king \cap FILE_HBB = {}
         THEN Shl(king, 1) \cup (IF king \cap RANK_8BB = {} THEN Shl(king, 9) ELSE {})
         ELSE {})
        \cup
        (IF king \cap RANK_8BB = {}
         THEN Shl(king, 8) \cup (IF king \cap FILE_ABB = {} THEN Shl(king, 7) ELSE {})
         ELSE {})
        \cup
        (IF king \cap FILE_ABB = {}
         THEN Shr(king, 1) \cup (IF king \cap RANK_1BB = {} THEN Shr(king, 9) ELSE {})
         ELSE {})
        \cup
        (IF king \cap RANK_1BB = {}
         THEN Shr(king, 8) \cup (IF king \cap FILE_HBB = {} THEN Shr(king, 7) ELSE {})
         ELSE {})

(***************************************************************************)
(* maps.rs: the lazily built tables                                        *)
(***************************************************************************)
WHITE_PAWN_ATTACK_MAP == [square \in Squares |-> mask_pawn_attacks(WHITE, square)]
BLACK_PAWN_ATTACK_MAP == [square \in Squares |-> mask_pawn_attacks(BLACK, square)]
KNIGHT_ATTACK_MAP == [square \in Squares |-> mask_knight_attacks(square)]
KING_ATTACK_MAP == [square \in Squares |-> mask_king_attacks(square)]
DIRECTIONAL_MAP_RANK == [square \in Squares |-> get_rank_mask(square)]
DIRECTIONAL_MAP_FILE == [square \in Squares |-> get_file_mask(square)]
DIRECTIONAL_MAP_DA == [square \in Squares |-> get_diagonal_ascending_mask(square)]
DIRECTIONAL_MAP_DD == [square \in Squares |-> get_diagonal_descending_mask(square)]

get_pawn_attacks(side, square) ==
    IF side = WHITE THEN WHITE_PAWN_ATTACK_MAP[square] ELSE BLACK_PAWN_ATTACK_MAP[square]
get_knight_attacks(square) == KNIGHT_ATTACK_MAP[square]
get_king_attacks(square) == KING_ATTACK_MAP[square]

get_bishop_blockers == [square \in Squares |-> mask_bishop_attacks(square, {}) \cap NOT_OUTER]

get_rook_blockers ==
    \* if (mask & edge).count_ones() == 1 { mask &= not_edge }
    LET trim(mask, edge, not_edge) ==
            IF Cardinality(mask \cap edge) = 1 THEN mask \cap not_edge ELSE mask
    IN  [square \in Squares |->
            trim(trim(trim(trim(mask_rook_attacks(square, {}),
                                FILE_ABB, NOT_FILE_ABB),
                           FILE_HBB, NOT_FILE_HBB),
                      RANK_1BB, NOT_RANK_1BB),
                 RANK_8BB, NOT_RANK_8BB)]

\* The magic of a square maps PEXT(occupancy, mask), that is the subset
\* occupancy & mask of the mask, to the reference attacks computed for that
\* subset; get_*_magics fills the entry of every subset of the mask.
get_bishop_attacks(square, occupancy) ==
    mask_bishop_attacks(square, occupancy \cap get_bishop_blockers[square])

get_rook_attacks(square, occupancy) ==
    mask_rook_attacks(square, occupancy \cap get_rook_blockers[square])

get_queen_attacks(square, occupancy) ==
    get_rook_attacks(square, occupancy) \cup get_bishop_attacks(square, occupancy)

get_pawn_moves(side, square, occupancy) ==
    LET square_bb == from_square(square)
        square_in_front == IF side = WHITE THEN Shl(square_bb, 8) ELSE Shr(square_bb, 8)
        leap_square == IF side = WHITE THEN Shl(square_in_front, 8) ELSE Shr(square_in_front, 8)
        start_rank == IF side = WHITE THEN RANK_2BB ELSE RANK_7BB
    IN  IF square_in_front \cap occupancy = {}
        THEN square_in_front
             \cup (IF square_bb \cap start_rank # {} /\ leap_square \cap occupancy = {}
                   THEN leap_square ELSE {})
        ELSE {}

get_ray_between_squares(from, to) ==
    LET from_file == from % 8
        from_rank == from \div 8
        to_file == to % 8
        to_rank == to \div 8
        Min2(a, b) == IF a < b THEN a ELSE b
        Max2(a, b) == IF a < b THEN b ELSE a
        signum(d) == IF d > 0 THEN 1 ELSE IF d < 0 THEN -1 ELSE 0
        fsig == signum(to_file - from_file)
        rsig == signum(to_rank - from_rank)
        \* the steps k for which the while loop is still running before step k
        Running(k) == \A j \in 0..(k - 1) :
                         /\ from_file + j * fsig # to_file - fsig
                         /\ from_rank + j * rsig # to_rank - rsig
    IN  IF from = to THEN EMPTY
        ELSE IF from_file = to_file
        THEN {rank * 8 + from_file : rank \in (Min2(from_rank, to_rank) + 1)..(Max2(from_rank, to_rank) - 1)}
        ELSE IF from_rank = to_rank
        THEN {from_rank * 8 + file : file \in (Min2(from_file, to_file) + 1)..(Max2(from_file, to_file) - 1)}
        ELSE {(from_rank + k * rsig) * 8 + (from_file + k * fsig) : k \in {k \in 1..7 : Running(k)}}

(***************************************************************************)
(* position.rs: data model                                                 *)
(***************************************************************************)
SCORE_WHITE_WINS == 1000000
SCORE_BLACK_WINS == -1000000
SCORE_DRAW == 0
PIECE_VALUES == <<100, 300, 300, 500, 900, 0>>
MAX_ZOBRIST_ARRAY_SIZE == 100

Pieces == 0..5
Sides == {WHITE, BLACK}

\* SidePieces::occupancy
occupancy_of(side_pieces) == UNION {side_pieces[x] : x \in Pieces}

\* SidePieces::get_piece_type_at_square: the first piece kind with the bit set
get_piece_type_at_square(side_pieces, square) ==
    LET found == {x \in Pieces : side_pieces[x] \cap from_square(square) # {}}
    IN  IF found = {} THEN None
        ELSE Some(CHOOSE x \in found : \A y \in found : x <= y)

new_game_pieces(side) ==
    IF side = WHITE
    THEN [x \in Pieces |->
            CASE x = PAWN -> 8..15
              [] x = KNIGHT -> {1, 6}
              [] x = BISHOP -> {2, 5}
              [] x = ROOK -> {0, 7}
              [] x = QUEEN -> {3}
              [] x = KING -> {4}]
    ELSE [x \in Pieces |->
            CASE x = PAWN -> 48..55
              [] x = KNIGHT -> {57, 62}
              [] x = BISHOP -> {58, 61}
              [] x = ROOK -> {56, 63}
              [] x = QUEEN -> {59}
              [] x = KING -> {60}]

\* Castling::new
Castling_new ==
    [white_king_side |-> TRUE, white_queen_side |-> TRUE,
     black_king_side |-> TRUE, black_queen_side |-> TRUE]

get_zobrist_index(c) ==
    (IF c.white_king_side THEN 1 ELSE 0) + (IF c.white_queen_side THEN 2 ELSE 0)
    + (IF c.black_king_side THEN 4 ELSE 0) + (IF c.black_queen_side THEN 8 ELSE 0)

\* A hash is the XOR of independent random 64-bit keys; it is modelled by the
\* set of the keys that enter the XOR (each key enters at most once), so two
\* hashes are equal exactly when the same keys were combined.  Key kinds:
\* 0 = piece (side, piece, square), 1 = castling index, 2 = en-passant
\* square, 3 = side to move.  The hash 0 of a zeroed array slot is {}.
ZERO_HASH == {}
hash_position(position) ==
    {<<0, side, piece, square>> :
        <<side, piece, square>> \in
            {t \in Sides \X Pieces \X Squares : t[3] \in position.pieces[t[1]][t[2]]}}
    \cup {<<1, get_zobrist_index(position.castling_rights), 0, 0>>}
    \cup {<<2, sq, 0, 0>> : sq \in position.en_passant_square}
    \cup (IF position.side_to_move = BLACK THEN {<<3, 0, 0, 0>>} ELSE {})

\* ZobristMoveStack; zobrist_array[i] of the code is zobrist_array[i + 1] here
ZobristMoveStack_new ==
    [zobrist_array |-> [i \in 1..MAX_ZOBRIST_ARRAY_SIZE |-> ZERO_HASH],
     zobrist_array_index |-> 0]

\* the mutant of get_repetitions: the scan never stops early
get_repetitions_uncapped(stack, zobrist_hash) ==
    Cardinality({i \in 1..MAX_ZOBRIST_ARRAY_SIZE : stack.zobrist_array[i] = zobrist_hash})

\* the backwards scan stops counting at 3
get_repetitions(stack, zobrist_hash) ==
    LET n == Cardinality({i \in 1..MAX_ZOBRIST_ARRAY_SIZE : stack.zobrist_array[i] = zobrist_hash})
    IN  IF n >= 3 THEN 3 ELSE n

add(stack, zobrist_hash) ==
    IF stack.zobrist_array_index = MAX_ZOBRIST_ARRAY_SIZE - 1
    THEN [stack EXCEPT !.zobrist_array =
            [i \in 1..MAX_ZOBRIST_ARRAY_SIZE |->
                IF i < MAX_ZOBRIST_ARRAY_SIZE THEN stack.zobrist_array[i + 1] ELSE zobrist_hash]]
    ELSE [stack EXCEPT !.zobrist_array[stack.zobrist_array_index + 1] = zobrist_hash,
                       !.zobrist_array_index = stack.zobrist_array_index + 1]

\* Position::new (the hasher field, a table of random keys, is represented by
\* hash_position above)
Position_new ==
    [pieces |-> [side \in Sides |-> new_game_pieces(side)],
     halfmove_clock |-> 0,
     fullmove_number |-> 1,
     side_to_move |-> WHITE,
     castling_rights |-> Castling_new,
     en_passant_square |-> None,
     zobrist_stack |-> ZobristMoveStack_new]

Translation(from, to) == [from |-> from, to |-> to]
Move(translation, promotion, capture, castling, en_passant) ==
    [translation |-> translation, promotion |-> promotion, capture |-> capture,
     castling |-> castling, en_passant |-> en_passant]

\* concatenation of the sequences F(s[1]), F(s[2]), ...: the pushes of a loop
\* over s whose body pushes f[item]
RECURSIVE Flatten(_)
Flatten(ss) == IF ss = <<>> THEN <<>> ELSE Head(ss) \o Flatten(Tail(ss))
ForEach(s, f) == Flatten([i \in 1..Len(s) |-> f[s[i]]])

(***************************************************************************)
(* Position::get_side_attacks                                              *)
(***************************************************************************)
SideAttacks_init ==
    [check |-> None, double_check |-> FALSE, nonrays |-> {},
     rays_h |-> {}, rays_v |-> {}, rays_dd |-> {}, rays_da |-> {}]

SideAttacks_all(a) == a.nonrays \cup a.rays_h \cup a.rays_v \cup a.rays_dd \cup a.rays_da

\* one pass of the loop body for the piece of kind i on square; the ray
\* components are assigned (=), not accumulated (|=), and the rook and queen
\* branches mask rays_h with the file map and rays_v with the rank map
side_attacks_step(acc, i, square, side, occupancy, enemy_king_square_bb) ==
    LET assign(acc1, attacks) ==
            CASE i \in {PAWN, KNIGHT, KING} ->
                    [acc1 EXCEPT !.nonrays = @ \cup attacks]
              [] i = BISHOP ->
                    [acc1 EXCEPT !.rays_dd = attacks \cap DIRECTIONAL_MAP_DD[square],
                                 !.rays_da = attacks \cap DIRECTIONAL_MAP_DA[square]]
              [] i = ROOK ->
                    [acc1 EXCEPT !.rays_h = attacks \cap DIRECTIONAL_MAP_FILE[square],
                                 !.rays_v = attacks \cap DIRECTIONAL_MAP_RANK[square]]
              [] i = QUEEN ->
                    [acc1 EXCEPT !.rays_h = attacks \cap DIRECTIONAL_MAP_FILE[square],
                                 !.rays_v = attacks \cap DIRECTIONAL_MAP_RANK[square],
                                 !.rays_dd = attacks \cap DIRECTIONAL_MAP_DD[square],
                                 !.rays_da = attacks \cap DIRECTIONAL_MAP_DA[square]]
        record(attacks) ==
            assign(IF i # KING /\ enemy_king_square_bb \cap attacks # {}
                   THEN IF is_some(acc.check)
                        THEN [acc EXCEPT !.double_check = TRUE]
                        ELSE [acc EXCEPT !.check = Some([piece |-> i, square |-> square])]
                   ELSE acc,
                   attacks)
    IN  record(CASE i = PAWN -> get_pawn_attacks(side, square)
                 [] i = KNIGHT -> get_knight_attacks(square)
                 [] i = BISHOP -> get_bishop_attacks(square, occupancy)
                 [] i = ROOK -> get_rook_attacks(square, occupancy)
                 [] i = QUEEN -> get_queen_attacks(square, occupancy)
                 [] i = KING -> get_king_attacks(square))

RECURSIVE side_attacks_loop(_, _, _, _, _, _)
side_attacks_loop(acc, list, k, side, occupancy, enemy_king_square_bb) ==
    IF k > Len(list) THEN acc
    ELSE side_attacks_loop(
            side_attacks_step(acc, list[k][1], list[k][2], side, occupancy, enemy_king_square_bb),
            list, k + 1, side, occupancy, enemy_king_square_bb)

get_side_attacks(position, side, occupancy) ==
    LET enemy_king_square_bb == position.pieces[Not(side)][KING]
        \* for i in 0..6 { for square in piece_bb.get_squares() { ... } }
        list == Flatten([j \in 1..6 |->
                    LET sqs == get_squares(position.pieces[side][j - 1])
                    IN  [n \in 1..Len(sqs) |-> <<j - 1, sqs[n]>>]])
    IN  side_attacks_loop(SideAttacks_init, list, 1, side, occupancy, enemy_king_square_bb)

(***************************************************************************)
(* Position::get_absolute_pins_for_side                                    *)
(***************************************************************************)
AbsolutePins_all(p) == p.pins_h \cup p.pins_v \cup p.pins_dd \cup p.pins_da

get_absolute_pins_for_side(enemy_attacks, defender_occupancy, defender_king_square) ==
    LET relevant_rank == DIRECTIONAL_MAP_RANK[defender_king_square]
        relevant_file == DIRECTIONAL_MAP_FILE[defender_king_square]
        relevant_dd == DIRECTIONAL_MAP_DD[defender_king_square]
        relevant_da == DIRECTIONAL_MAP_DA[defender_king_square]
        rook_sees == get_rook_attacks(defender_king_square, defender_occupancy)
        bishop_sees == get_bishop_attacks(defender_king_square, defender_occupancy)
    IN  [pins_h |-> (rook_sees \cap relevant_rank \cap defender_occupancy)
                    \cap (enemy_attacks.rays_h \cap relevant_rank \cap defender_occupancy),
         pins_v |-> (rook_sees \cap relevant_file \cap defender_occupancy)
                    \cap (enemy_attacks.rays_v \cap relevant_file \cap defender_occupancy),
         pins_dd |-> (bishop_sees \cap relevant_dd \cap defender_occupancy)
                    \cap (enemy_attacks.rays_dd \cap relevant_dd \cap defender_occupancy),
         pins_da |-> (bishop_sees \cap relevant_da \cap defender_occupancy)
                    \cap (enemy_attacks.rays_da \cap relevant_da \cap defender_occupancy)]

(***************************************************************************)
(* Position::get_raw_score and Position::check_draw                        *)
(***************************************************************************)
RECURSIVE SumTo(_, _)
SumTo(f, n) == IF n < 0 THEN 0 ELSE f[n] + SumTo(f, n - 1)

get_raw_score(position) ==
    LET white_score == SumTo([i \in Pieces |-> Cardinality(position.pieces[WHITE][i]) * PIECE_VALUES[i + 1]], 5)
        black_score == SumTo([i \in Pieces |-> Cardinality(position.pieces[BLACK][i]) * PIECE_VALUES[i + 1]], 5)
    IN  white_score - black_score

\* the material loop is "for side in 0..1": it visits side 0 (White) only, so
\* black_insufficient_material keeps its initial value true
insufficient_material(position) ==
    LET Sufficient(side) ==
            \/ Cardinality(position.pieces[side][PAWN]) > 0
            \/ Cardinality(position.pieces[side][KNIGHT]) > 1
            \/ Cardinality(position.pieces[side][BISHOP]) > 1
            \/ Cardinality(position.pieces[side][ROOK]) > 0
            \/ Cardinality(position.pieces[side][QUEEN]) > 0
        sides_visited == 0..0
        white_insufficient_material == ~(WHITE \in sides_visited /\ Sufficient(WHITE))
        black_insufficient_material == ~(BLACK \in sides_visited /\ Sufficient(BLACK))
    IN  white_insufficient_material /\ black_insufficient_material

\* check_draw(&mut self): the stack after the push, and the verdict
check_draw_stack(position) == add(position.zobrist_stack, hash_position(position))

check_draw(position) ==
    LET current_position_hash == hash_position(position)
        stack == check_draw_stack(position)
        repetitions == get_repetitions(stack, current_position_hash)
    IN  \/ repetitions >= 3
        \/ position.halfmove_clock >= 100
        \/ insufficient_material(position)

(***************************************************************************)
(* Position::evaluate, the branch taken when the side to move is not in    *)
(* check.  It generates castling, pawn, knight, bishop, rook and queen     *)
(* moves; it has no king-move section.                                     *)
(***************************************************************************)
PromotionOrder == <<QUEEN, ROOK, BISHOP, KNIGHT>>

\* the four pushes of one promotion block
promotions(from, to, capture) ==
    [n \in 1..4 |-> Move(Some(Translation(from, to)), Some(PromotionOrder[n]), capture, None, None)]

castling_moves(position, us, our_occupancy, their_attacks) ==
    LET CastleIf(right, mask, dir) ==
            IF right /\ our_occupancy \cap mask = {} /\ SideAttacks_all(their_attacks) \cap mask = {}
            THEN <<Move(None, None, None, Some(dir), None)>>
            ELSE <<>>
        cr == position.castling_rights
    IN  IF us = WHITE
        THEN CastleIf(cr.white_king_side, WHITE_KINGSIDE_CASTLE, KING_SIDE)
             \o CastleIf(cr.white_queen_side, WHITE_QUEENSIDE_CASTLE, QUEEN_SIDE)
        ELSE CastleIf(cr.black_king_side, BLACK_KINGSIDE_CASTLE, KING_SIDE)
             \o CastleIf(cr.black_queen_side, BLACK_QUEENSIDE_CASTLE, QUEEN_SIDE)

\* the moves of the pawn on square: pushes when the pawn is not pinned on
\* pins_h, pins_dd or pins_da; otherwise ("else if") captures when it is not
\* pinned on pins_h or pins_v.  The capture field is looked up at the pawn's
\* own square in the enemy's pieces.
pawn_moves_no_check(position, us, square, occupancy, their_occupancy, our_pins) ==
    LET them == Not(us)
        square_bb == from_square(square)
        push(destination_square) ==
            IF \/ us = WHITE /\ from_square(destination_square) \cap RANK_8BB # {}
               \/ us = BLACK /\ from_square(destination_square) \cap RANK_1BB # {}
            THEN promotions(square, destination_square, None)
            ELSE LET two_sq_back == IF us = WHITE THEN destination_square - 16
                                    ELSE destination_square + 16
                     destination_square_bb == from_square(destination_square)
                     sides_of_destination_square ==
                        Shl(destination_square_bb, 1) \cup Shr(destination_square_bb, 1)
                     added_as_en_passant ==
                        /\ square = two_sq_back
                        /\ sides_of_destination_square \cap position.pieces[them][PAWN] # {}
                 IN  <<Move(Some(Translation(square, destination_square)), None, None, None,
                            IF added_as_en_passant THEN Some(destination_square) ELSE None)>>
        pawn_attacks == get_pawn_attacks(us, square)
        taken == get_piece_type_at_square(position.pieces[them], square)
        capture(pawn_capture_square) ==
            IF \/ us = WHITE /\ from_square(pawn_capture_square) \cap RANK_8BB # {}
               \/ us = BLACK /\ from_square(pawn_capture_square) \cap RANK_1BB # {}
            THEN promotions(square, pawn_capture_square, taken)
            ELSE <<Move(Some(Translation(square, pawn_capture_square)), None, taken, None, None)>>
        en_passant_capture ==
            IF is_some(position.en_passant_square)
            THEN LET en_passant_capture_square ==
                        IF us = WHITE THEN unwrap(position.en_passant_square) + 8
                        ELSE unwrap(position.en_passant_square) - 8
                 IN  IF pawn_attacks \cap from_square(en_passant_capture_square) # {}
                     THEN <<Move(Some(Translation(square, en_passant_capture_square)), None,
                                 Some(PAWN), None, Some(unwrap(position.en_passant_square)))>>
                     ELSE <<>>
            ELSE <<>>
    IN  IF /\ our_pins.pins_h \cap square_bb = {}
           /\ our_pins.pins_dd \cap square_bb = {}
           /\ our_pins.pins_da \cap square_bb = {}
        THEN ForEach(get_squares(get_pawn_moves(us, square, occupancy)), [each_square \in Squares |-> push(each_square)])
        ELSE IF our_pins.pins_h \cap square_bb = {} /\ our_pins.pins_v \cap square_bb = {}
        THEN ForEach(get_squares(pawn_attacks \cap their_occupancy), [each_square \in Squares |-> capture(each_square)]) \o en_passant_capture
        ELSE <<>>

\* a capture or a quiet move of a piece to each square of targets
piece_moves_to(position, them, from, targets, their_occupancy) ==
    LET one(to) ==
            IF from_square(to) \cap their_occupancy # {}
            THEN <<Move(Some(Translation(from, to)), None,
                        get_piece_type_at_square(position.pieces[them], to), None, None)>>
            ELSE <<Move(Some(Translation(from, to)), None, None, None, None)>>
    IN  ForEach(get_squares(targets), [each_square \in Squares |-> one(each_square)])

knight_moves_no_check(position, them, knight, our_occupancy, their_occupancy, our_pins) ==
    LET valid_knight_attacks == get_knight_attacks(knight) \ our_occupancy
    IN  IF AbsolutePins_all(our_pins) \cap from_square(knight) = {}
        THEN piece_moves_to(position, them, knight, valid_knight_attacks, their_occupancy)
        ELSE <<>>

bishop_moves_no_check(position, them, bishop_square, occupancy, our_occupancy, their_occupancy, our_pins) ==
    LET bishop_attacks == get_bishop_attacks(bishop_square, occupancy) \ our_occupancy
        current_bishop_bb == from_square(bishop_square)
        valid_bishop_attacks ==
            IF our_pins.pins_dd \cap current_bishop_bb # {}
            THEN bishop_attacks \cap DIRECTIONAL_MAP_DD[bishop_square]
            ELSE IF our_pins.pins_da \cap current_bishop_bb # {}
            THEN bishop_attacks \cap DIRECTIONAL_MAP_DA[bishop_square]
            ELSE bishop_attacks
    IN  IF our_pins.pins_h \cap current_bishop_bb = {} /\ our_pins.pins_v \cap current_bishop_bb = {}
        THEN piece_moves_to(position, them, bishop_square, valid_bishop_attacks, their_occupancy)
        ELSE <<>>

rook_moves_no_check(position, them, rook_square, occupancy, our_occupancy, their_occupancy, our_pins) ==
    LET rook_attacks == get_rook_attacks(rook_square, occupancy) \ our_occupancy
        current_rook_bb == from_square(rook_square)
        valid_rook_attacks ==
            IF our_pins.pins_h \cap current_rook_bb # {}
            THEN rook_attacks \cap DIRECTIONAL_MAP_RANK[rook_square]
            ELSE IF our_pins.pins_v \cap current_rook_bb # {}
            THEN rook_attacks \cap DIRECTIONAL_MAP_FILE[rook_square]
            ELSE rook_attacks
    IN  IF our_pins.pins_dd \cap current_rook_bb = {} /\ our_pins.pins_da \cap current_rook_bb = {}
        THEN piece_moves_to(position, them, rook_square, valid_rook_attacks, their_occupancy)
        ELSE <<>>

\* the pin tests intersect with queen_bb, the board of all own queens
queen_moves_no_check(position, them, queen_square, queen_bb, occupancy, our_occupancy, their_occupancy, our_pins) ==
    LET queen_attacks == get_queen_attacks(queen_square, occupancy) \ our_occupancy
        valid_queen_attacks ==
            IF our_pins.pins_h \cap queen_bb # {}
            THEN queen_attacks \cap DIRECTIONAL_MAP_RANK[queen_square]
            ELSE IF our_pins.pins_v \cap queen_bb # {}
            THEN queen_attacks \cap DIRECTIONAL_MAP_FILE[queen_square]
            ELSE IF our_pins.pins_dd \cap queen_bb # {}
            THEN queen_attacks \cap DIRECTIONAL_MAP_DD[queen_square]
            ELSE IF our_pins.pins_da \cap queen_bb # {}
            THEN queen_attacks \cap DIRECTIONAL_MAP_DA[queen_square]
            ELSE queen_attacks
    IN  piece_moves_to(position, them, queen_square, valid_queen_attacks, their_occupancy)

moves_no_check(position, us, occupancy, our_occupancy, their_occupancy, their_attacks, our_pins) ==
    LET them == Not(us)
        P(square) == pawn_moves_no_check(position, us, square, occupancy, their_occupancy, our_pins)
        N(square) == knight_moves_no_check(position, them, square, our_occupancy, their_occupancy, our_pins)
        B(square) == bishop_moves_no_check(position, them, square, occupancy, our_occupancy, their_occupancy, our_pins)
        R(square) == rook_moves_no_check(position, them, square, occupancy, our_occupancy, their_occupancy, our_pins)
        Q(square) == queen_moves_no_check(position, them, square, position.pieces[us][QUEEN],
                                          occupancy, our_occupancy, their_occupancy, our_pins)
    IN  castling_moves(position, us, our_occupancy, their_attacks)
        \o ForEach(get_squares(position.pieces[us][PAWN]), [each_square \in Squares |-> P(each_square)])
        \o ForEach(get_squares(position.pieces[us][KNIGHT]), [each_square \in Squares |-> N(each_square)])
        \o ForEach(get_squares(position.pieces[us][BISHOP]), [each_square \in Squares |-> B(each_square)])
        \o ForEach(get_squares(position.pieces[us][ROOK]), [each_square \in Squares |-> R(each_square)])
        \o ForEach(get_squares(position.pieces[us][QUEEN]), [each_square \in Squares |-> Q(each_square)])

(***************************************************************************)
(* Position::evaluate, the branch taken when the side to move is in check. *)
(* Every single-square board of this branch is built with Bitboard::from,  *)
(* the numeric conversion (Bitboard_from), not with from_square.           *)
(***************************************************************************)
\* double check: the king moves of lines 1321-1373
double_check_moves(position, us, our_king_square, available_squares, their_occupancy) ==
    LET them == Not(us)
        one(square) ==
            LET square_bb == Bitboard_from(square)
                found == {i \in Pieces : position.pieces[them][i] \cap square_bb # {}}
                piece == IF found = {} THEN 0 ELSE CHOOSE i \in found : \A j \in found : i <= j
            IN  IF square_bb \cap their_occupancy # {}
                THEN <<Move(Some(Translation(our_king_square, square)), None, Some(piece), None, None)>>
                ELSE <<Move(Some(Translation(our_king_square, square)), None, None, None, None)>>
    IN  ForEach(get_squares(available_squares), [each_square \in Squares |-> one(each_square)])

\* single check, piece == PAWN (lines 1389-1505)
pawn_moves_in_check(position, us, square, occupancy, our_pins, checker, between_bb) ==
    LET checker_square == checker.square
        checker_piece == checker.piece
        checker_square_bb == Bitboard_from(checker_square)
        square_bb == Bitboard_from(square)
        pawn_attacks == get_pawn_attacks(us, square)
        unpinned_hv == our_pins.pins_h \cap square_bb = {} /\ our_pins.pins_v \cap square_bb = {}
        capture_checker ==
            IF pawn_attacks \cap checker_square_bb # {} /\ unpinned_hv
            THEN IF \/ us = WHITE /\ checker_square_bb \cap RANK_8BB = {}
                    \/ us = BLACK /\ checker_square_bb \cap RANK_1BB = {}
                 THEN promotions(square, checker_square, Some(checker_piece))
                 ELSE <<Move(Some(Translation(square, checker_square)), None,
                             Some(checker_piece), None, None)>>
            ELSE <<>>
        valid_pawn_moves == get_pawn_moves(us, square, occupancy) \cap between_bb
        block ==
            IF checker_piece > KNIGHT /\ valid_pawn_moves # {} /\ unpinned_hv
            THEN IF \/ us = WHITE /\ valid_pawn_moves \cap RANK_8BB = {}
                    \/ us = BLACK /\ valid_pawn_moves \cap RANK_1BB = {}
                 THEN promotions(square, to_square(valid_pawn_moves), None)
                 ELSE <<Move(Some(Translation(square, to_square(valid_pawn_moves))), None,
                             None, None, None)>>
            ELSE <<>>
        en_passant ==
            IF /\ checker_piece = PAWN
               /\ is_some(position.en_passant_square)
               /\ unwrap(position.en_passant_square) = checker_square
            THEN LET en_passant_capture_square ==
                        IF us = WHITE THEN checker_square + 8 ELSE checker_square - 8
                     en_passant_capture_bb == Bitboard_from(en_passant_capture_square)
                 IN  IF pawn_attacks \cap en_passant_capture_bb # {}
                     THEN <<Move(Some(Translation(square, checker_square)), None,
                                 Some(checker_piece), None, Some(checker_square))>>
                     ELSE <<>>
            ELSE <<>>
    IN  capture_checker \o block \o en_passant

\* single check, piece == KNIGHT or BISHOP (lines 1506-1569); attacks is the
\* piece's attack board
minor_moves_in_check(square, attacks, our_pins, checker, between_bb) ==
    LET checker_square_bb == Bitboard_from(checker.square)
        square_bb == Bitboard_from(square)
        unpinned_hv == our_pins.pins_h \cap square_bb = {} /\ our_pins.pins_v \cap square_bb = {}
        valid_moves == attacks \cap between_bb
    IN  (IF attacks \cap checker_square_bb # {} /\ unpinned_hv
         THEN <<Move(Some(Translation(square, checker.square)), None, Some(checker.piece), None, None)>>
         ELSE <<>>)
        \o
        (IF checker.piece > KNIGHT /\ valid_moves # {} /\ unpinned_hv
         THEN <<Move(Some(Translation(square, to_square(valid_moves))), None, None, None, None)>>
         ELSE <<>>)

\* single check, piece == ROOK (lines 1570-1640); both arms of the rank test
\* test pins_h
rook_moves_in_check(square, occupancy, our_pins, checker, between_bb) ==
    LET checker_square_bb == Bitboard_from(checker.square)
        square_bb == Bitboard_from(square)
        rook_attacks == get_rook_attacks(square, occupancy)
        unpinned_diag == our_pins.pins_da \cap square_bb = {} /\ our_pins.pins_dd \cap square_bb = {}
        unpinned_h == our_pins.pins_h \cap square_bb = {}
        valid_rook_moves == rook_attacks \cap between_bb
        block(valid_rook_move) ==
            IF unpinned_h
            THEN <<Move(Some(Translation(square, valid_rook_move)), None, None, None, None)>>
            ELSE <<>>
    IN  (IF rook_attacks \cap checker_square_bb # {} /\ unpinned_diag /\ unpinned_h
         THEN <<Move(Some(Translation(square, checker.square)), None, Some(checker.piece), None, None)>>
         ELSE <<>>)
        \o
        (IF checker.piece > KNIGHT /\ valid_rook_moves # {} /\ unpinned_diag
         THEN ForEach(get_squares(valid_rook_moves), [each_square \in Squares |-> block(each_square)])
         ELSE <<>>)

\* single check, piece == QUEEN (lines 1641-1743)
queen_moves_in_check(square, occupancy, our_pins, checker, between_bb) ==
    LET checker_square_bb == Bitboard_from(checker.square)
        square_bb == Bitboard_from(square)
        queen_attacks == get_queen_attacks(square, occupancy)
        free_h == our_pins.pins_h \cap square_bb = {}
        free_v == our_pins.pins_v \cap square_bb = {}
        free_diag == our_pins.pins_da \cap square_bb = {} /\ our_pins.pins_dd \cap square_bb = {}
        capture_move == <<Move(Some(Translation(square, checker.square)), None,
                               Some(checker.piece), None, None)>>
        capture_checker ==
            IF queen_attacks \cap checker_square_bb # {}
            THEN IF get_rank_mask(square) \cap checker_square_bb # {}
                 THEN (IF free_h /\ free_diag THEN capture_move ELSE <<>>)
                 ELSE IF get_file_mask(square) \cap checker_square_bb # {}
                 THEN (IF free_v /\ free_diag THEN capture_move ELSE <<>>)
                 ELSE IF DIRECTIONAL_MAP_DD[square] \cap checker_square_bb # {}
                 THEN (IF free_h /\ free_v THEN capture_move ELSE <<>>)
                 ELSE IF DIRECTIONAL_MAP_DA[square] \cap checker_square_bb # {}
                 THEN (IF free_h /\ free_v THEN capture_move ELSE <<>>)
                 ELSE <<>>
            ELSE <<>>
        block(valid_queen_move) ==
            LET valid_queen_move_bb == Bitboard_from(valid_queen_move)
                quiet == <<Move(Some(Translation(square, valid_queen_move)), None, None, None, None)>>
            IN  IF get_rank_mask(square) \cap valid_queen_move_bb # {}
                THEN (IF free_h /\ free_diag THEN quiet ELSE <<>>)
                ELSE IF get_file_mask(square) \cap valid_queen_move_bb # {}
                THEN (IF free_v /\ free_diag THEN quiet ELSE <<>>)
                ELSE (IF free_h /\ free_v THEN quiet ELSE <<>>)
    IN  capture_checker
        \o (IF checker.piece > KNIGHT
            THEN ForEach(get_squares(queen_attacks \cap between_bb), [each_square \in Squares |-> block(each_square)])
            ELSE <<>>)

\* single check, piece == KING (lines 1744-1792); the captured kind of the
\* second arm is looked up at the king's own square
king_moves_in_check(position, us, square, our_occupancy, their_occupancy, their_attacks_without_our_king, checker) ==
    LET them == Not(us)
        checker_square_bb == Bitboard_from(checker.square)
        valid_attacks == (get_king_attacks(square) \ our_occupancy)
                            \ SideAttacks_all(their_attacks_without_our_king)
        one(attack) ==
            LET attack_bb == Bitboard_from(attack)
            IN  IF attack_bb \cap checker_square_bb # {}
                THEN <<Move(Some(Translation(square, attack)), None, Some(checker.piece), None, None)>>
                ELSE IF attack_bb \cap their_occupancy # {}
                THEN <<Move(Some(Translation(square, attack)), None,
                            get_piece_type_at_square(position.pieces[them], square), None, None)>>
                ELSE <<Move(Some(Translation(square, attack)), None, None, None, None)>>
    IN  ForEach(get_squares(valid_attacks), [each_square \in Squares |-> one(each_square)])

\* the single-checker arm: the gate of line 1384, then the loop over the six
\* piece kinds
single_check_moves(position, us, occupancy, our_occupancy, their_occupancy, our_pins, our_king_square, our_attacks_all, their_attacks_without_our_king, checker) ==
    LET checker_square_bb == Bitboard_from(checker.square)
        between_bb == get_ray_between_squares(our_king_square, checker.square)
        P(square) == pawn_moves_in_check(position, us, square, occupancy, our_pins, checker, between_bb)
        N(square) == minor_moves_in_check(square, get_knight_attacks(square), our_pins, checker, between_bb)
        B(square) == minor_moves_in_check(square, get_bishop_attacks(square, occupancy), our_pins, checker, between_bb)
        R(square) == rook_moves_in_check(square, occupancy, our_pins, checker, between_bb)
        Q(square) == queen_moves_in_check(square, occupancy, our_pins, checker, between_bb)
        K(square) == king_moves_in_check(position, us, square, our_occupancy, their_occupancy,
                                         their_attacks_without_our_king, checker)
    IN  IF our_attacks_all \cap checker_square_bb # {} \/ our_attacks_all \cap between_bb # {}
        THEN ForEach(get_squares(position.pieces[us][PAWN]), [each_square \in Squares |-> P(each_square)])
             \o ForEach(get_squares(position.pieces[us][KNIGHT]), [each_square \in Squares |-> N(each_square)])
             \o ForEach(get_squares(position.pieces[us][BISHOP]), [each_square \in Squares |-> B(each_square)])
             \o ForEach(get_squares(position.pieces[us][ROOK]), [each_square \in Squares |-> R(each_square)])
             \o ForEach(get_squares(position.pieces[us][QUEEN]), [each_square \in Squares |-> Q(each_square)])
             \o ForEach(get_squares(position.pieces[us][KING]), [each_square \in Squares |-> K(each_square)])
        ELSE <<>>

(***************************************************************************)
(* Position::evaluate.  It takes self by value (Position is Copy), so the  *)
(* hash that check_draw pushes goes onto the callee's copy of the stack    *)
(* and the caller's position is left as it was.  The result carries        *)
(* panicked = TRUE when the call aborts: with no king of the side to move  *)
(* our_king.to_square() is 64 and the direction maps are indexed out of    *)
(* bounds in get_absolute_pins_for_side.                                   *)
(***************************************************************************)
PositionEvaluation(moves, game_state, score) ==
    [moves |-> moves, game_state |-> game_state, score |-> score, panicked |-> FALSE]

Panic == [moves |-> <<>>, game_state |-> IN_PROGRESS, score |-> None, panicked |-> TRUE]

\* the mutant of mated_evaluation: the sentinel of the wrong side
mated_evaluation_swapped(us) ==
    PositionEvaluation(<<>>, CHECKMATE,
        IF us = WHITE THEN Some(SCORE_WHITE_WINS) ELSE Some(SCORE_BLACK_WINS))

\* the three returns of CHECKMATE: no move, and the score of the side that
\* is not to move winning
mated_evaluation(us) ==
    PositionEvaluation(<<>>, CHECKMATE,
        IF us = WHITE THEN Some(SCORE_BLACK_WINS) ELSE Some(SCORE_WHITE_WINS))

evaluate(position) ==
    IF check_draw(position)
    THEN PositionEvaluation(<<>>, DRAW, Some(SCORE_DRAW))
    ELSE
    LET us == position.side_to_move
        them == Not(us)
        our_occupancy == occupancy_of(position.pieces[us])
        their_occupancy == occupancy_of(position.pieces[them])
        occupancy == our_occupancy \cup their_occupancy
        our_king == position.pieces[us][KING]
        our_king_square == to_square(our_king)
        score == Some(get_raw_score(position))
        mated == mated_evaluation(us)
        \* the double-check arm
        king_only(available_squares) ==
            IF available_squares = {} THEN mated
            ELSE PositionEvaluation(
                    double_check_moves(position, us, our_king_square,
                                       available_squares, their_occupancy),
                    CHECK, score)
        \* the single-checker arm
        blocked(moves) ==
            IF moves = <<>> THEN mated
            ELSE PositionEvaluation(moves, IN_PROGRESS, score)
        in_check(their_attacks, our_pins, our_attacks_all, their_attacks_without_our_king) ==
            IF their_attacks.double_check
            THEN king_only((get_king_attacks(our_king_square) \ our_occupancy)
                                \ SideAttacks_all(their_attacks_without_our_king))
            ELSE blocked(single_check_moves(position, us, occupancy, our_occupancy,
                            their_occupancy, our_pins, our_king_square, our_attacks_all,
                            their_attacks_without_our_king, unwrap(their_attacks.check)))
        pinned(their_attacks, our_pins) ==
            IF is_none(their_attacks.check)
            THEN PositionEvaluation(
                    moves_no_check(position, us, occupancy, our_occupancy, their_occupancy,
                                   their_attacks, our_pins),
                    IN_PROGRESS, score)
            ELSE in_check(their_attacks, our_pins,
                          SideAttacks_all(get_side_attacks(position, us, occupancy)),
                          get_side_attacks(position, them, occupancy \ our_king))
        attacked(their_attacks) ==
            IF our_king_square \notin Squares THEN Panic
            ELSE pinned(their_attacks,
                        get_absolute_pins_for_side(their_attacks, our_occupancy, our_king_square))
    IN  attacked(get_side_attacks(position, them, occupancy))

(***************************************************************************)
(* Position::make_move                                                     *)
(***************************************************************************)
\* new_position.pieces[side][piece] = f(new_position.pieces[side][piece])
with_pieces(position, side, piece, bb) == [position EXCEPT !.pieces[side][piece] = bb]

\* the panics of make_move: no own piece on the from square, or a move with
\* neither a translation nor a castling side
make_move_panics(position, m) ==
    IF is_some(m.translation)
    THEN is_none(get_piece_type_at_square(position.pieces[position.side_to_move],
                                          unwrap(m.translation).from))
    ELSE is_none(m.castling)

make_move_pawn(position, us, m, translation) ==
    LET them == Not(us)
        moved ==
            IF is_some(m.en_passant)
            THEN LET en_passant == unwrap(m.en_passant)
                 IN  IF en_passant = translation.to
                     THEN \* the pawn's own double push
                          LET p1 == with_pieces(position, us, PAWN,
                                        unset_bit(set_bit(position.pieces[us][PAWN], translation.to),
                                                  translation.from))
                          IN  [p1 EXCEPT !.en_passant_square = Some(translation.to)]
                     ELSE \* capture of the opponent's pawn standing on en_passant
                          LET p1 == with_pieces(position, us, PAWN,
                                        set_bit(position.pieces[us][PAWN], translation.to))
                              p2 == [p1 EXCEPT !.en_passant_square = None]
                              p3 == with_pieces(p2, them, PAWN, unset_bit(p2.pieces[them][PAWN], en_passant))
                          IN  with_pieces(p3, us, PAWN, unset_bit(p3.pieces[us][PAWN], translation.from))
            ELSE LET p1 == IF is_some(m.promotion)
                           THEN with_pieces(position, us, unwrap(m.promotion),
                                    set_bit(position.pieces[us][unwrap(m.promotion)], translation.to))
                           ELSE with_pieces(position, us, PAWN,
                                    set_bit(position.pieces[us][PAWN], translation.to))
                     p2 == IF is_some(m.capture)
                           THEN with_pieces(p1, them, unwrap(m.capture),
                                    unset_bit(p1.pieces[them][unwrap(m.capture)], translation.to))
                           ELSE p1
                     p3 == [p2 EXCEPT !.en_passant_square = None]
                 IN  with_pieces(p3, us, PAWN, unset_bit(p3.pieces[us][PAWN], translation.from))
    IN  [moved EXCEPT !.halfmove_clock = 0]

make_move_piece(position, us, m, translation, from_piece) ==
    LET them == Not(us)
        cr == position.castling_rights
        rights ==
            IF from_piece = KING
            THEN IF us = WHITE
                 THEN [cr EXCEPT !.white_king_side = FALSE, !.white_queen_side = FALSE]
                 ELSE [cr EXCEPT !.black_king_side = FALSE, !.black_queen_side = FALSE]
            ELSE IF from_piece = ROOK
            THEN IF us = WHITE
                 THEN IF translation.from = 0 THEN [cr EXCEPT !.white_queen_side = FALSE]
                      ELSE IF translation.from = 7 THEN [cr EXCEPT !.white_king_side = FALSE]
                      ELSE cr
                 ELSE IF translation.from = 56 THEN [cr EXCEPT !.black_queen_side = FALSE]
                      ELSE IF translation.from = 63 THEN [cr EXCEPT !.black_king_side = FALSE]
                      ELSE cr
            ELSE cr
        p1 == [position EXCEPT !.castling_rights = rights]
        p2 == with_pieces(p1, us, from_piece,
                  unset_bit(set_bit(p1.pieces[us][from_piece], translation.to), translation.from))
        p3 == [p2 EXCEPT !.halfmove_clock = p2.halfmove_clock + 1]
        p4 == IF is_some(m.capture)
              THEN [with_pieces(p3, them, unwrap(m.capture),
                        unset_bit(p3.pieces[them][unwrap(m.capture)], translation.to))
                    EXCEPT !.halfmove_clock = 0]
              ELSE p3
    IN  [p4 EXCEPT !.en_passant_square = None]

\* the king moves two files from wherever it stands and the rook is taken
\* from the corner side of it; castling rights and the en-passant square are
\* left as they were
make_move_castling(position, us, m) ==
    LET king == to_square(position.pieces[us][KING])
        k_to == IF unwrap(m.castling) = KING_SIDE THEN king + 2 ELSE king - 2
        r_from == IF unwrap(m.castling) = KING_SIDE THEN king + 3 ELSE king - 4
        r_to == IF unwrap(m.castling) = KING_SIDE THEN king + 1 ELSE king - 1
        p1 == with_pieces(position, us, KING,
                  set_bit(unset_bit(position.pieces[us][KING], king), k_to))
        p2 == with_pieces(p1, us, ROOK, set_bit(unset_bit(p1.pieces[us][ROOK], r_from), r_to))
    IN  [p2 EXCEPT !.halfmove_clock = p2.halfmove_clock + 1]

\* defined when make_move_panics(position, m) is false; the closing
\* "halfmove_clock += 1" runs after every kind of move
make_move(position, m) ==
    LET us == position.side_to_move
        new_position ==
            IF is_some(m.translation)
            THEN LET translation == unwrap(m.translation)
                     from_piece == unwrap(get_piece_type_at_square(position.pieces[us], translation.from))
                 IN  IF from_piece = PAWN
                     THEN make_move_pawn(position, us, m, translation)
                     ELSE make_move_piece(position, us, m, translation, from_piece)
            ELSE make_move_castling(position, us, m)
    IN  [new_position EXCEPT
            !.fullmove_number = IF us = BLACK THEN new_position.fullmove_number + 1
                                ELSE new_position.fullmove_number,
            !.side_to_move = Not(us),
            !.halfmove_clock = new_position.halfmove_clock + 1]

(***************************************************************************)
(* main.rs: a game of random moves from the new-game position.  The        *)
(* random choice among eval.moves is the input of the model.  It is        *)
(* bounded by a book: the first Len(book) choices are the moves the book   *)
(* names (each taken only if evaluate returned it), and at most MaxFree    *)
(* further choices are arbitrary.                                          *)
(***************************************************************************)
MaxFree == 2

\* a book move is a pair <<from, to>>
Knights == <<<<62, 45>>, <<6, 21>>, <<45, 62>>, <<21, 6>>>>
BookShuffle == [k \in 1..51 |-> IF k = 1 THEN <<12, 28>> ELSE Knights[((k - 2) % 4) + 1]]
BookPin == <<<<11, 19>>, <<52, 44>>, <<1, 18>>, <<61, 25>>>>
BookPinBroken == BookPin \o <<<<18, 28>>>>
BookPawnPin == <<<<8, 16>>, <<52, 44>>, <<16, 24>>, <<59, 31>>, <<24, 32>>, <<31, 22>>>>
BookMate == <<<<12, 28>>, <<53, 45>>, <<11, 27>>, <<54, 38>>, <<3, 39>>>>
BookCastle == <<<<6, 21>>, <<57, 42>>, <<12, 28>>, <<42, 57>>, <<5, 12>>, <<57, 42>>>>
BookCorner == <<<<9, 17>>, <<54, 46>>, <<2, 9>>, <<48, 40>>, <<9, 63>>>>
BookPassant == <<<<6, 21>>, <<48, 40>>, <<12, 28>>, <<40, 32>>, <<28, 36>>, <<55, 47>>,
                 <<5, 12>>, <<51, 35>>>>
\* 1. Nc3 Nc6 2. d4 Nb4 3. Bf4 Nxa2 4. Qd2 Nc1
BookKnightOnC1 == <<<<1, 18>>, <<57, 42>>, <<11, 27>>, <<42, 25>>, <<2, 29>>, <<25, 8>>,
                    <<3, 11>>, <<8, 2>>>>
\* 1. e4 d5 2. Bb5+
BookBishopCheck == <<<<12, 28>>, <<51, 35>>, <<5, 33>>>>
Books == {<<>>, BookShuffle, BookPin, BookPinBroken, BookPawnPin, BookMate, BookCastle, BookCorner,
          BookPassant, BookKnightOnC1, BookBishopCheck}

VARIABLES positions, last_game_state, move_count, eval, random_move, book, pc, search,
          repetition_stack, ray_call
vars == <<positions, last_game_state, move_count, eval, random_move, book, pc, search,
          repetition_stack, ray_call>>

last_position == positions[Len(positions)]

NoEval == [moves |-> <<>>, game_state |-> IN_PROGRESS, score |-> None, panicked |-> FALSE]

\* main.rs builds no PositionTree
NoSearch == [pc |-> "none"]

\* no call of get_ray_between_squares is driven on its own
NoRay == [pc |-> "none"]

\* the stack of the position is in positions; no stack is driven on its own
NoStack == [stack |-> ZobristMoveStack_new, added |-> <<>>, period |-> 0]

Init ==
    /\ positions = <<Position_new>>
    /\ last_game_state = IN_PROGRESS
    /\ move_count = 0
    /\ eval = NoEval
    /\ random_move = None
    /\ book \in Books
    /\ pc = "evaluate"
    /\ search = NoSearch
    /\ repetition_stack = NoStack
    /\ ray_call = NoRay

\* let eval = last_position.evaluate(None); last_game_state = eval.game_state;
\* if moves.len() == 0 { break }
Evaluate ==
    /\ pc = "evaluate"
    /\ eval' = evaluate(last_position)
    /\ last_game_state' = IF eval'.panicked THEN last_game_state ELSE eval'.game_state
    /\ pc' = IF eval'.panicked THEN "panicked"
             ELSE IF Len(eval'.moves) = 0 THEN "done"
             ELSE "choose"
    /\ UNCHANGED <<positions, move_count, random_move, book, search, repetition_stack, ray_call>>

Candidates ==
    IF move_count < Len(book)
    THEN {i \in 1..Len(eval.moves) :
            /\ is_some(eval.moves[i].translation)
            /\ unwrap(eval.moves[i].translation).from = book[move_count + 1][1]
            /\ unwrap(eval.moves[i].translation).to = book[move_count + 1][2]}
    ELSE IF move_count < Len(book) + MaxFree
    THEN 1..Len(eval.moves)
    ELSE {}

\* random_move = moves.choose(rng); positions.push(last_position.make_move(random_move));
\* move_count += 1; then the loop test on last_game_state
MakeMove ==
    /\ pc = "choose"
    /\ \E i \in Candidates :
         LET m == eval.moves[i]
         IN  /\ random_move' = Some(m)
             /\ IF make_move_panics(last_position, m)
                THEN /\ pc' = "panicked"
                     /\ UNCHANGED <<positions, move_count>>
                ELSE /\ positions' = Append(positions, make_move(last_position, m))
                     /\ move_count' = move_count + 1
                     /\ pc' = IF last_game_state \in {IN_PROGRESS, CHECK} THEN "evaluate" ELSE "done"
    /\ UNCHANGED <<last_game_state, eval, book, search, repetition_stack, ray_call>>

Next == Evaluate \/ MakeMove

Spec == Init /\ [][Next]_vars

(***************************************************************************)
(* Position::from_fen (called by game.rs and tests.rs; its body is not in  *)
(* position.rs).  The six fields of a FEN record: the placement is eight   *)
(* ranks from rank 8 down to rank 1, each a sequence of one-character      *)
(* strings, a digit standing for a run of empty squares.                   *)
(***************************************************************************)
FenDigit == [c \in {"1", "2", "3", "4", "5", "6", "7", "8"} |->
                CASE c = "1" -> 1 [] c = "2" -> 2 [] c = "3" -> 3 [] c = "4" -> 4
                  [] c = "5" -> 5 [] c = "6" -> 6 [] c = "7" -> 7 [] c = "8" -> 8]

FenPiece == [c \in {"P", "N", "B", "R", "Q", "K", "p", "n", "b", "r", "q", "k"} |->
                CASE c \in {"P", "p"} -> PAWN [] c \in {"N", "n"} -> KNIGHT
                  [] c \in {"B", "b"} -> BISHOP [] c \in {"R", "r"} -> ROOK
                  [] c \in {"Q", "q"} -> QUEEN [] c \in {"K", "k"} -> KING]

FenSide(c) == IF c \in {"P", "N", "B", "R", "Q", "K"} THEN WHITE ELSE BLACK

\* the cells of one rank, file A first: "" for an empty square
RECURSIVE FenRank(_)
FenRank(chars) ==
    IF chars = <<>> THEN <<>>
    ELSE IF Head(chars) \in DOMAIN FenDigit
         THEN [i \in 1..FenDigit[Head(chars)] |-> ""] \o FenRank(Tail(chars))
         ELSE <<Head(chars)>> \o FenRank(Tail(chars))

from_fen(placement, active, castling, en_passant, halfmove, fullmove) ==
    LET cell(square) == FenRank(placement[8 - (square \div 8)])[(square % 8) + 1]
    IN  [pieces |-> [side \in Sides |-> [piece \in Pieces |->
                        {square \in Squares :
                            /\ cell(square) # ""
                            /\ FenSide(cell(square)) = side
                            /\ FenPiece[cell(square)] = piece}]],
         halfmove_clock |-> halfmove,
         fullmove_number |-> fullmove,
         side_to_move |-> IF active = "w" THEN WHITE ELSE BLACK,
         castling_rights |-> [white_king_side |-> "K" \in castling,
                              white_queen_side |-> "Q" \in castling,
                              black_king_side |-> "k" \in castling,
                              black_queen_side |-> "q" \in castling],
         en_passant_square |-> en_passant,
         zobrist_stack |-> ZobristMoveStack_new]

E8 == <<"8">>
\* rnbqkbnr/pppppppp/8/8/8/8/PPPPPPPP/RNBQKBNR w KQkq - 0 1
FenStart == from_fen(<<<<"r","n","b","q","k","b","n","r">>, <<"p","p","p","p","p","p","p","p">>,
                       E8, E8, E8, E8,
                       <<"P","P","P","P","P","P","P","P">>, <<"R","N","B","Q","K","B","N","R">>>>,
                     "w", {"K", "Q", "k", "q"}, None, 0, 1)
\* 4k3/8/8/8/8/8/4P3/4K3 w - - 0 1
FenKingPawn == from_fen(<<<<"4","k","3">>, E8, E8, E8, E8, E8, <<"4","P","3">>, <<"4","K","3">>>>,
                        "w", {}, None, 0, 1)
\* 4k3/8/8/8/8/8/8/4K3 w - - 0 1
FenBareKings == from_fen(<<<<"4","k","3">>, E8, E8, E8, E8, E8, E8, <<"4","K","3">>>>,
                         "w", {}, None, 0, 1)
\* 7k/8/8/8/8/8/5PPP/4R2K b - - 0 1
FenLoneKing == from_fen(<<<<"7","k">>, E8, E8, E8, E8, E8, <<"5","P","P","P">>, <<"4","R","2","K">>>>,
                        "b", {}, None, 0, 1)
\* r3k2r/pppppppp/8/8/8/8/PPPPPPPP/R3K2R w KQkq - 0 1
FenCastling == from_fen(<<<<"r","3","k","2","r">>, <<"p","p","p","p","p","p","p","p">>,
                          E8, E8, E8, E8,
                          <<"P","P","P","P","P","P","P","P">>, <<"R","3","K","2","R">>>>,
                        "w", {"K", "Q", "k", "q"}, None, 0, 1)
\* 8/8/8/2k5/8/2K5/8/R7 w - - 0 1
FenRookCheck == from_fen(<<E8, E8, E8, <<"2","k","5">>, E8, <<"2","K","5">>, E8, <<"R","7">>>>,
                         "w", {}, None, 0, 1)
\* 7k/5K2/6Q1/8/8/8/8/8 b - - 0 1
FenStalemate == from_fen(<<<<"7","k">>, <<"5","K","2">>, <<"6","Q","1">>, E8, E8, E8, E8, E8>>,
                         "b", {}, None, 0, 1)
\* 3qk3/8/8/8/8/8/8/4K3 w - - 0 1
FenQueenDown == from_fen(<<<<"3","q","k","3">>, E8, E8, E8, E8, E8, E8, <<"4","K","3">>>>,
                         "w", {}, None, 0, 1)
\* 4k3/4p3/8/8/8/8/8/4K3 b - - 0 1
FenPawnDown == from_fen(<<<<"4","k","3">>, <<"4","p","3">>, E8, E8, E8, E8, E8, <<"4","K","3">>>>,
                        "b", {}, None, 0, 1)

FenPositions == {FenStart, FenKingPawn, FenBareKings, FenLoneKing, FenCastling, FenRookCheck,
                 FenStalemate, FenQueenDown, FenPawnDown}

\* the same loop of main.rs, started from a position read from a FEN record
InitFen ==
    /\ positions \in {<<p>> : p \in FenPositions}
    /\ last_game_state = IN_PROGRESS
    /\ move_count = 0
    /\ eval = NoEval
    /\ random_move = None
    /\ book = <<>>
    /\ pc = "evaluate"
    /\ search = NoSearch
    /\ repetition_stack = NoStack
    /\ ray_call = NoRay

SpecFen == InitFen /\ [][Next]_vars

(***************************************************************************)
(* The rules of chess the claims are stated against, written from the      *)
(* rules and not from the engine: which squares a piece attacks, what a    *)
(* move does to the board, and which moves are legal.                      *)
(***************************************************************************)
FileOf(square) == square % 8
RankOf(square) == square \div 8
SquareAt(file, rank) == rank * 8 + file
Abs(x) == IF x < 0 THEN -x ELSE x
Sign(x) == IF x > 0 THEN 1 ELSE IF x < 0 THEN -1 ELSE 0
Larger(x, y) == IF x > y THEN x ELSE y

AllOccupied(pieces) == occupancy_of(pieces[WHITE]) \cup occupancy_of(pieces[BLACK])

\* a and b on one rank, file or diagonal
OnOneLine(a, b) ==
    /\ a # b
    /\ \/ FileOf(a) = FileOf(b)
       \/ RankOf(a) = RankOf(b)
       \/ Abs(FileOf(a) - FileOf(b)) = Abs(RankOf(a) - RankOf(b))

\* the squares strictly between two squares of one line
StrictlyBetween(a, b) ==
    LET df == Sign(FileOf(b) - FileOf(a))
        dr == Sign(RankOf(b) - RankOf(a))
        n == Larger(Abs(FileOf(b) - FileOf(a)), Abs(RankOf(b) - RankOf(a)))
    IN  {SquareAt(FileOf(a) + k * df, RankOf(a) + k * dr) : k \in 1..(n - 1)}

Forward(side) == IF side = WHITE THEN 1 ELSE -1

\* the piece of the given side and kind on from attacks the square to
PieceAttacks(pieces, side, piece, from, to) ==
    LET df == Abs(FileOf(to) - FileOf(from))
        dr == Abs(RankOf(to) - RankOf(from))
        clear == StrictlyBetween(from, to) \cap AllOccupied(pieces) = {}
    IN  CASE piece = PAWN -> df = 1 /\ RankOf(to) - RankOf(from) = Forward(side)
          [] piece = KNIGHT -> {df, dr} = {1, 2}
          [] piece = BISHOP -> from # to /\ df = dr /\ clear
          [] piece = ROOK -> from # to /\ (df = 0 \/ dr = 0) /\ clear
          [] piece = QUEEN -> OnOneLine(from, to) /\ clear
          [] piece = KING -> from # to /\ df <= 1 /\ dr <= 1

IsAttacked(pieces, by, square) ==
    \E piece \in Pieces : \E from \in pieces[by][piece] :
        PieceAttacks(pieces, by, piece, from, square)

\* some king of the side stands on a square the other side attacks
KingAttacked(pieces, side) ==
    \E king \in pieces[side][KING] : IsAttacked(pieces, Not(side), king)

KindAt(pieces, side, square) == CHOOSE piece \in Pieces : square \in pieces[side][piece]

\* the board after the piece on from goes to to: a capture on to, the pawn
\* taken en passant, the rook of a castling king, a promotion
BoardAfter(pieces, us, from, to, promotion) ==
    LET them == Not(us)
        kind == KindAt(pieces, us, from)
        placed == IF is_some(promotion) THEN unwrap(promotion) ELSE kind
        en_passant == /\ kind = PAWN
                      /\ FileOf(from) # FileOf(to)
                      /\ to \notin occupancy_of(pieces[them])
        taken == IF en_passant THEN {SquareAt(FileOf(to), RankOf(from))} ELSE {to}
        castles == kind = KING /\ Abs(FileOf(to) - FileOf(from)) = 2
        rook_from == IF FileOf(to) > FileOf(from) THEN SquareAt(7, RankOf(from))
                     ELSE SquareAt(0, RankOf(from))
        rook_to == IF FileOf(to) > FileOf(from) THEN to - 1 ELSE to + 1
        ours(piece) ==
            LET lifted == pieces[us][piece] \ {from}
                rooked == IF castles /\ piece = ROOK THEN (lifted \ {rook_from}) \cup {rook_to}
                          ELSE lifted
            IN  IF piece = placed THEN rooked \cup {to} ELSE rooked
    IN  [side \in Sides |-> [piece \in Pieces |->
            IF side = us THEN ours(piece) ELSE pieces[them][piece] \ taken]]

\* the engine keeps in en_passant_square the square of the pawn that has just
\* advanced two ranks; the capture lands one rank behind it
EnPassantTargets(position, us) ==
    {e + 8 * Forward(us) : e \in {x \in position.en_passant_square :
                                    x \in position.pieces[Not(us)][PAWN]}}

PawnDestinations(position, us, from) ==
    LET pieces == position.pieces
        all == AllOccupied(pieces)
        one == from + 8 * Forward(us)
        two == from + 16 * Forward(us)
        start == IF us = WHITE THEN 1 ELSE 6
        pushes == IF one \in Squares /\ one \notin all
                  THEN {one} \cup (IF RankOf(from) = start /\ two \notin all THEN {two} ELSE {})
                  ELSE {}
        takes == {to \in Squares :
                    /\ PieceAttacks(pieces, us, PAWN, from, to)
                    /\ \/ to \in occupancy_of(pieces[Not(us)])
                       \/ to \in EnPassantTargets(position, us)}
    IN  pushes \cup takes

CastlingDestinations(position, us, from) ==
    LET pieces == position.pieces
        all == AllOccupied(pieces)
        home == IF us = WHITE THEN 4 ELSE 60
        rights == position.castling_rights
        king_side == IF us = WHITE THEN rights.white_king_side ELSE rights.black_king_side
        queen_side == IF us = WHITE THEN rights.white_queen_side ELSE rights.black_queen_side
        safe(squares) == \A square \in squares : ~IsAttacked(pieces, Not(us), square)
    IN  IF from # home THEN {}
        ELSE (IF /\ king_side
                 /\ home + 3 \in pieces[us][ROOK]
                 /\ {home + 1, home + 2} \cap all = {}
                 /\ safe({home, home + 1, home + 2})
              THEN {home + 2} ELSE {})
             \cup
             (IF /\ queen_side
                 /\ home - 4 \in pieces[us][ROOK]
                 /\ {home - 1, home - 2, home - 3} \cap all = {}
                 /\ safe({home, home - 1, home - 2})
              THEN {home - 2} ELSE {})

\* the legal moves of the side to move, each as <<from, to, promotion>>
LegalMoves(position) ==
    LET us == position.side_to_move
        pieces == position.pieces
        own == occupancy_of(pieces[us])
        destinations(from) ==
            LET kind == KindAt(pieces, us, from)
            IN  IF kind = PAWN THEN PawnDestinations(position, us, from)
                ELSE {to \in Squares \ own : PieceAttacks(pieces, us, kind, from, to)}
                     \cup (IF kind = KING THEN CastlingDestinations(position, us, from) ELSE {})
        last_rank == IF us = WHITE THEN 7 ELSE 0
        promotions_of(from, to) ==
            IF KindAt(pieces, us, from) = PAWN /\ RankOf(to) = last_rank
            THEN {Some(piece) : piece \in {KNIGHT, BISHOP, ROOK, QUEEN}}
            ELSE {None}
    IN  {<<from, to, promotion>> \in own \X Squares \X ({None} \cup {Some(piece) : piece \in Pieces}) :
            /\ to \in destinations(from)
            /\ promotion \in promotions_of(from, to)
            /\ ~KingAttacked(BoardAfter(pieces, us, from, to, promotion), us)}

(***************************************************************************)
(* Move::get_tstring (called by tests.rs; its body is not in the           *)
(* repository): the move as from-square, to-square and promotion; a        *)
(* castling move as the king's two squares.                                *)
(***************************************************************************)
get_tstring(position, m) ==
    IF is_some(m.translation)
    THEN <<unwrap(m.translation).from, unwrap(m.translation).to, m.promotion>>
    ELSE LET king == to_square(position.pieces[position.side_to_move][KING])
         IN  <<king, IF unwrap(m.castling) = KING_SIDE THEN king + 2 ELSE king - 2, None>>

\* the evaluation in eval is the evaluation of last_position
Evaluated == pc \in {"choose", "done"} /\ ~eval.panicked

\* the positions of the game so far that repeat last_position: the same
\* pieces, side to move, castling rights and en-passant square
Occurrences ==
    {i \in 1..Len(positions) :
        /\ positions[i].pieces = last_position.pieces
        /\ positions[i].side_to_move = last_position.side_to_move
        /\ positions[i].castling_rights = last_position.castling_rights
        /\ positions[i].en_passant_square = last_position.en_passant_square}

\* the move that led to last_position and the position it was made in
Moved == move_count >= 1 /\ pc # "panicked"
previous_position == positions[Len(positions) - 1]
played == unwrap(random_move)

(***************************************************************************)
(* C1: in a game from the new-game position, every move that evaluate      *)
(* returns, once made, leaves the king of the side that moved on a square  *)
(* no enemy piece attacks.                                                 *)
(***************************************************************************)
C1_MovesLeaveKingSafe ==
    Evaluated =>
        \A i \in 1..Len(eval.moves) :
            ~make_move_panics(last_position, eval.moves[i]) =>
                ~KingAttacked(make_move(last_position, eval.moves[i]).pieces,
                              last_position.side_to_move)

\* after 1. d3 e6 2. Nc3 Bb4 the knight on c3, pinned to the king by the
\* bishop on b4, has moved and the white king stands attacked
C1_PinnedKnightMoved ==
    /\ book = BookPin
    /\ move_count = 5
    /\ 18 \in previous_position.pieces[WHITE][KNIGHT]
    /\ 18 \notin last_position.pieces[WHITE][KNIGHT]
    /\ KingAttacked(last_position.pieces, WHITE)

(***************************************************************************)
(* C2: when the evaluation is not DRAW, the moves evaluate returns, read   *)
(* as from-square, to-square and promotion, are exactly the legal moves of *)
(* the position.                                                           *)
(***************************************************************************)
C2_MovesAreTheLegalMoves ==
    (Evaluated /\ eval.game_state # DRAW) =>
        {get_tstring(last_position, eval.moves[i]) : i \in 1..Len(eval.moves)}
            = LegalMoves(last_position)

\* after 1. d3 e6 the legal king move e1-d2 is not among the moves returned
C2_KingMoveMissing ==
    /\ Evaluated
    /\ move_count = 2
    /\ book = BookPin
    /\ <<4, 11, None>> \in LegalMoves(last_position)
    /\ <<4, 11, None>> \notin
            {get_tstring(last_position, eval.moves[i]) : i \in 1..Len(eval.moves)}

(***************************************************************************)
(* C3: in every position of a game from the new-game position each side    *)
(* has exactly one king.                                                   *)
(***************************************************************************)
C3_OneKingEach ==
    \A i \in 1..Len(positions) : \A side \in Sides :
        Cardinality(positions[i].pieces[side][KING]) = 1

\* the bishop on b4 has taken the white king on e1 and the next evaluate
\* has aborted
C3_KingTaken ==
    /\ pc = "panicked"
    /\ last_position.pieces[WHITE][KING] = {}
    /\ 4 \in last_position.pieces[BLACK][BISHOP]

(***************************************************************************)
(* C4: in every position of a game from the new-game position no square    *)
(* holds two pieces: the six boards of a side are pairwise disjoint and    *)
(* the two sides' occupancies are disjoint.                                *)
(***************************************************************************)
C4_NoSharedSquare ==
    \A i \in 1..Len(positions) :
        /\ \A side \in Sides : \A a, b \in Pieces :
                a # b => positions[i].pieces[side][a] \cap positions[i].pieces[side][b] = {}
        /\ occupancy_of(positions[i].pieces[WHITE])
                \cap occupancy_of(positions[i].pieces[BLACK]) = {}

\* after 1. a3 e6 2. a4 Qh4 3. a5 Qg3 the pawn on f2 has taken on g3 and
\* the black queen is still there
C4_PawnAndQueenOnG3 ==
    /\ 22 \in last_position.pieces[WHITE][PAWN]
    /\ 22 \in last_position.pieces[BLACK][QUEEN]

(***************************************************************************)
(* C5: when the position that evaluate has just evaluated stands for the   *)
(* third time in the game (same pieces, side to move, castling rights and  *)
(* en-passant square, each occurrence evaluated once by the loop),         *)
(* evaluate returns DRAW with no moves.                                    *)
(***************************************************************************)
C5_ThirdOccurrenceIsDraw ==
    (Evaluated /\ Cardinality(Occurrences) >= 3) =>
        (eval.game_state = DRAW /\ eval.moves = <<>>)

\* the position after 1. e4 has come back twice by knight moves and its
\* third evaluation is ongoing, with moves
C5_ThirdOccurrenceOngoing ==
    /\ Evaluated
    /\ book = BookShuffle
    /\ move_count = 9
    /\ Cardinality(Occurrences) = 3
    /\ eval.game_state = IN_PROGRESS
    /\ Len(eval.moves) > 0

(***************************************************************************)
(* C6: make_move gives halfmove_clock 0 after a pawn move or a capture and *)
(* the clock of the position moved from plus 1 after any other move.       *)
(***************************************************************************)
C6_ClockResetOrPlusOne ==
    Moved =>
        IF \/ is_some(played.capture)
           \/ /\ is_some(played.translation)
              /\ unwrap(played.translation).from \in previous_position.pieces[previous_position.side_to_move][PAWN]
        THEN last_position.halfmove_clock = 0
        ELSE last_position.halfmove_clock = previous_position.halfmove_clock + 1

\* after the pawn move 1. e4 the clock is 1
C6_ClockOneAfterPawnMove ==
    /\ move_count = 1
    /\ played.translation = Some(Translation(12, 28))
    /\ last_position.halfmove_clock = 1

(***************************************************************************)
(* C7: halfmove_clock is at most 100 in every position of a game from the  *)
(* new-game position.                                                      *)
(***************************************************************************)
C7_ClockAtMost100 ==
    \A i \in 1..Len(positions) : positions[i].halfmove_clock <= 100

\* 1. e4 and fifty knight moves: the clock has gone 1, 3, ..., 99, 101
C7_Clock101 ==
    /\ move_count = 51
    /\ last_position.halfmove_clock = 101

(***************************************************************************)
(* C8: when evaluate returns CHECKMATE the move list is empty and the      *)
(* score is -1000000 with White to move and 1000000 with Black to move;    *)
(* when it returns DRAW the move list is empty and the score is 0.         *)
(***************************************************************************)
C8_DecidedStateIsFinal ==
    Evaluated =>
        /\ eval.game_state = CHECKMATE =>
                /\ eval.moves = <<>>
                /\ eval.score = Some(IF last_position.side_to_move = WHITE
                                     THEN -1000000 ELSE 1000000)
        /\ eval.game_state = DRAW =>
                /\ eval.moves = <<>>
                /\ eval.score = Some(0)

\* 1. e4 f6 2. d4 g5 3. Qh5: Black, to move, is mated
C8_BlackMated ==
    /\ Evaluated
    /\ book = BookMate
    /\ move_count = 5
    /\ last_position.side_to_move = BLACK
    /\ eval.game_state = CHECKMATE
    /\ eval.score = Some(1000000)

(***************************************************************************)
(* C9: when the side to move is not in check and evaluate returns no move, *)
(* it returns DRAW with score 0.                                           *)
(***************************************************************************)
C9_NoMoveNoCheckIsDraw ==
    (/\ Evaluated
     /\ ~KingAttacked(last_position.pieces, last_position.side_to_move)
     /\ eval.moves = <<>>)
        => (eval.game_state = DRAW /\ eval.score = Some(0))

\* Black, stalemated by king f7 and queen g6, is evaluated as ongoing
C9_StalemateOngoing ==
    /\ Evaluated
    /\ last_position = FenStalemate
    /\ LegalMoves(last_position) = {}
    /\ ~KingAttacked(last_position.pieces, BLACK)
    /\ eval.moves = <<>>
    /\ eval.game_state = IN_PROGRESS

(***************************************************************************)
(* C10: with the clock under 100 and no third occurrence, evaluate returns *)
(* DRAW only if neither side has a pawn, a rook, a queen, two knights or   *)
(* two bishops.                                                            *)
(***************************************************************************)
HasMaterial(position, side) ==
    \/ position.pieces[side][PAWN] # {}
    \/ position.pieces[side][ROOK] # {}
    \/ position.pieces[side][QUEEN] # {}
    \/ Cardinality(position.pieces[side][KNIGHT]) >= 2
    \/ Cardinality(position.pieces[side][BISHOP]) >= 2

C10_MaterialDrawNeedsBothBare ==
    (/\ Evaluated
     /\ eval.game_state = DRAW
     /\ last_position.halfmove_clock < 100
     /\ Cardinality(Occurrences) < 3)
        => (~HasMaterial(last_position, WHITE) /\ ~HasMaterial(last_position, BLACK))

\* king against king and queen is evaluated as DRAW
C10_DrawWithBlackQueen ==
    /\ Evaluated
    /\ last_position = FenQueenDown
    /\ last_position.pieces[BLACK][QUEEN] # {}
    /\ eval.game_state = DRAW


(***************************************************************************)
(* C11: after make_move applies a king move or a castling move, both       *)
(* castling rights of the side that moved are false in the position it     *)
(* returns.                                                                *)
(***************************************************************************)
RightsOf(position, side) ==
    IF side = WHITE
    THEN {position.castling_rights.white_king_side, position.castling_rights.white_queen_side}
    ELSE {position.castling_rights.black_king_side, position.castling_rights.black_queen_side}

\* the move played was made by the piece of the given kind
PlayedBy(piece) ==
    /\ is_some(played.translation)
    /\ unwrap(played.translation).from \in previous_position.pieces[previous_position.side_to_move][piece]

C11_KingOrCastlingDropsRights ==
    (Moved /\ (PlayedBy(KING) \/ is_none(played.translation))) =>
        RightsOf(last_position, previous_position.side_to_move) = {FALSE}

\* after 1. Nf3 Nc6 2. e4 Nb8 3. Be2 Nc6 White has castled king side and
\* still holds both rights
C11_CastledKeepingRights ==
    /\ Moved
    /\ book = BookCastle
    /\ move_count = 7
    /\ played.castling = Some(KING_SIDE)
    /\ last_position.pieces[WHITE][KING] = {6}
    /\ 5 \in last_position.pieces[WHITE][ROOK]
    /\ RightsOf(last_position, WHITE) = {TRUE}

(***************************************************************************)
(* C12: after make_move applies a rook move from A1, H1, A8 or H8, or a    *)
(* capture landing on one of these squares, the castling right of that     *)
(* corner is false in the position it returns.                             *)
(***************************************************************************)
Corners == {0, 7, 56, 63}

CornerRight(position, corner) ==
    CASE corner = 0 -> position.castling_rights.white_queen_side
      [] corner = 7 -> position.castling_rights.white_king_side
      [] corner = 56 -> position.castling_rights.black_queen_side
      [] corner = 63 -> position.castling_rights.black_king_side

C12_CornerMoveDropsRight ==
    Moved =>
        \A corner \in Corners :
            (\/ PlayedBy(ROOK) /\ unwrap(played.translation).from = corner
             \/ /\ is_some(played.translation)
                /\ is_some(played.capture)
                /\ unwrap(played.translation).to = corner)
                => ~CornerRight(last_position, corner)

\* after 1. b3 g6 2. Bb2 a6 3. Bxh8 the rook of H8 is gone and Black still
\* holds the king-side right
C12_RookTakenOnH8 ==
    /\ Moved
    /\ book = BookCorner
    /\ move_count = 5
    /\ played.capture = Some(ROOK)
    /\ 63 \in last_position.pieces[WHITE][BISHOP]
    /\ 63 \notin last_position.pieces[BLACK][ROOK]
    /\ CornerRight(last_position, 63)

(***************************************************************************)
(* C13: the position make_move returns has en_passant_square set only when *)
(* the move made is a pawn double push whose destination has an enemy pawn *)
(* beside it; after every other move, castling included, it is None.       *)
(***************************************************************************)
\* the squares beside a square on its rank
Beside(square) ==
    {s \in Squares : RankOf(s) = RankOf(square) /\ Abs(FileOf(s) - FileOf(square)) = 1}

\* the move played is a pawn's advance of two ranks
DoublePushPlayed ==
    /\ PlayedBy(PAWN)
    /\ Abs(unwrap(played.translation).to - unwrap(played.translation).from) = 16

C13_EnPassantOnlyAfterDoublePush ==
    (Moved /\ is_some(last_position.en_passant_square)) =>
        /\ DoublePushPlayed
        /\ Beside(unwrap(played.translation).to)
                \cap last_position.pieces[last_position.side_to_move][PAWN] # {}

\* 1. Nf3 a6 2. e4 a5 3. e5 h6 4. Be2 d5 sets the en-passant square d5;
\* White then castles and the square is still set
C13_SetAfterCastling ==
    /\ Moved
    /\ book = BookPassant
    /\ move_count = 9
    /\ played.castling = Some(KING_SIDE)
    /\ previous_position.en_passant_square = Some(35)
    /\ last_position.en_passant_square = Some(35)

(***************************************************************************)
(* C14: in every position of a game from the new-game position,            *)
(* en_passant_square when set is the square right behind the pawn that has *)
(* just advanced two ranks (on rank 3 after a White push, rank 6 after a   *)
(* Black push), and a pawn of the side to move stands beside that pawn, on *)
(* its rank and on a neighbouring file.                                    *)
(***************************************************************************)
EnPassantWellFormed(position) ==
    \A target \in position.en_passant_square :
        LET pusher == Not(position.side_to_move)
            pushed == target + 8 * Forward(pusher)
        IN  /\ RankOf(target) = (IF pusher = WHITE THEN 2 ELSE 5)
            /\ pushed \in position.pieces[pusher][PAWN]
            /\ Beside(pushed) \cap position.pieces[position.side_to_move][PAWN] # {}

C14_EnPassantSquareBehindPawn ==
    \A i \in 1..Len(positions) : EnPassantWellFormed(positions[i])

\* after 1. Nf3 a6 2. e4 a5 3. e5 h6 4. Be2 d5 the en-passant square is d5,
\* the square of the pawn itself, not d6 behind it
C14_SquareOfThePawnItself ==
    /\ Moved
    /\ book = BookPassant
    /\ move_count = 8
    /\ DoublePushPlayed
    /\ 36 \in last_position.pieces[WHITE][PAWN]
    /\ 35 \in last_position.pieces[BLACK][PAWN]
    /\ last_position.en_passant_square = Some(35)

(***************************************************************************)
(* C15: when the en-passant square is set and a pawn of the side to move   *)
(* attacks the en-passant target, the capture not exposing its king,       *)
(* evaluate returns the capture by that pawn onto the target with          *)
(* capture = PAWN, and make_move of it puts the pawn on the target and     *)
(* removes the enemy pawn that advanced two ranks.                         *)
(***************************************************************************)
\* the pawns of the side to move that may capture en passant onto target
EnPassantCapturers(position, target) ==
    {from \in position.pieces[position.side_to_move][PAWN] :
        /\ PieceAttacks(position.pieces, position.side_to_move, PAWN, from, target)
        /\ ~KingAttacked(BoardAfter(position.pieces, position.side_to_move, from, target, None),
                         position.side_to_move)}

\* m is the capture from -> target and make_move of it does what the rule says
IsEnPassantCapture(position, m, from, target) ==
    /\ m.translation = Some(Translation(from, target))
    /\ m.capture = Some(PAWN)
    /\ ~make_move_panics(position, m)
    /\ make_move(position, m).pieces
            = BoardAfter(position.pieces, position.side_to_move, from, target, None)

C15_EnPassantCaptureOffered ==
    (Evaluated /\ eval.game_state # DRAW) =>
        \A target \in EnPassantTargets(last_position, last_position.side_to_move) :
            \A from \in EnPassantCapturers(last_position, target) :
                \E i \in 1..Len(eval.moves) :
                    IsEnPassantCapture(last_position, eval.moves[i], from, target)

\* after 1. Nf3 a6 2. e4 a5 3. e5 h6 4. Be2 d5 the pawn on e5 may take on d6
\* en passant and no move e5-d6 is returned
C15_CaptureNotOffered ==
    /\ Evaluated
    /\ book = BookPassant
    /\ move_count = 8
    /\ 43 \in EnPassantTargets(last_position, WHITE)
    /\ 36 \in EnPassantCapturers(last_position, 43)
    /\ \A i \in 1..Len(eval.moves) :
            eval.moves[i].translation # Some(Translation(36, 43))

(***************************************************************************)
(* C16: from the new-game position evaluate returns 20 moves and an        *)
(* ongoing game, and the move sequences obtained by alternating evaluate   *)
(* and make_move number 400 at depth 2 and 8902 at depth 3.                *)
(***************************************************************************)
\* the number of sequences of depth moves from position, each move one that
\* evaluate returns for the position make_move has led to
RECURSIVE Perft(_, _), PerftFrom(_, _, _, _)
PerftFrom(position, moves, k, depth) ==
    IF k > Len(moves) THEN 0
    ELSE Perft(make_move(position, moves[k]), depth - 1)
            + PerftFrom(position, moves, k + 1, depth)
Perft(position, depth) ==
    IF depth = 1 THEN Len(evaluate(position).moves)
    ELSE PerftFrom(position, evaluate(position).moves, 1, depth)

AtNewGame == pc = "evaluate" /\ move_count = 0 /\ book = <<>>

C16_PerftCounts ==
    AtNewGame =>
        /\ Len(evaluate(last_position).moves) = 20
        /\ evaluate(last_position).game_state = ONGOING
        /\ Perft(last_position, 2) = 400
        /\ Perft(last_position, 3) = 8902

\* the counts of the engine: 20, 400 and 8768
C16_DepthThreeShort ==
    /\ AtNewGame
    /\ last_position = Position_new
    /\ Perft(last_position, 1) = 20
    /\ Perft(last_position, 2) = 400
    /\ Perft(last_position, 3) = 8768

(***************************************************************************)
(* tree.rs: the position tree.  The three maps of PositionTree are          *)
(* functions on node indices.  A score (f32) is kept as the arithmetic     *)
(* that produced it: the i32 score of an evaluation, or the average of a   *)
(* sequence of scores; ScoreValue gives its value as a fraction, with      *)
(* denominator 0 for NaN (0.0 / 0.0, the average of no score).  The scores *)
(* compared here are integers below 2^24 and averages of at most a few     *)
(* dozen of them, which f32 sums exactly and keeps distinct.               *)
(***************************************************************************)
DEFAULT == 0
RANDOM == 1
ExpandStyles == {DEFAULT, RANDOM}

\* (total_moves as f64).sqrt() as usize
sqrt_as_usize(n) == CHOOSE k \in 0..n : k * k <= n /\ (k + 1) * (k + 1) > n

calculate_all_moves_to_expand(total_moves) ==
    IF 4 * sqrt_as_usize(total_moves) > total_moves THEN total_moves
    ELSE 4 * sqrt_as_usize(total_moves)

ScoreOf(i) == [is_leaf |-> TRUE, leaf |-> i, avg_of |-> <<>>]
\* scores.sum() / scores.len()
Average(scores) == [is_leaf |-> FALSE, leaf |-> 0, avg_of |-> scores]

NaN == <<0, 0>>
is_nan(value) == value[2] = 0
FractionAdd(a, b) ==
    IF is_nan(a) \/ is_nan(b) THEN NaN ELSE <<a[1] * b[2] + b[1] * a[2], a[2] * b[2]>>
FractionDiv(a, n) == IF is_nan(a) \/ n = 0 THEN NaN ELSE <<a[1], a[2] * n>>
FractionLess(a, b) == a[1] * b[2] < b[1] * a[2]

RECURSIVE ScoreValue(_), ScoreSum(_, _)
ScoreSum(scores, k) ==
    IF k > Len(scores) THEN <<0, 1>>
    ELSE FractionAdd(ScoreValue(scores[k]), ScoreSum(scores, k + 1))
ScoreValue(score) ==
    IF score.is_leaf THEN <<score.leaf, 1>>
    ELSE FractionDiv(ScoreSum(score.avg_of, 1), Len(score.avg_of))

\* a stable sort of n items: the item placed r-th is the one with r - 1 items
\* before it, those that compare less and those that compare equal and stood
\* earlier; less is the set of the pairs <<i, j>> with item i less than item j
stable_sort(n, less) ==
    [r \in 1..n |->
        CHOOSE i \in 1..n :
            Cardinality({j \in 1..n : \/ <<j, i>> \in less
                                      \/ <<i, j>> \notin less /\ j < i}) = r - 1]

Node(parent_move, position, available_moves, score, game_state, depth) ==
    [parent_move |-> parent_move, position |-> position, available_moves |-> available_moves,
     score |-> score, game_state |-> game_state, depth |-> depth]

\* PositionTree::new; undefined when position.evaluate() panics
PositionTree_new(position) ==
    [root |-> 0,
     parent |-> <<>>,
     children |-> <<>>,
     values |-> [i \in {0} |->
                    Node(None, position, evaluate(position).moves, Some(ScoreOf(0)), ONGOING, 0)],
     depth |-> 0]

values_len(tree) == Cardinality(DOMAIN tree.values)

\* the closure of get_node_children for the move m: the child node, or
\* panicked when make_move or evaluate panics
node_child(node, m) ==
    LET built(new_position, evaluation) ==
            [panicked |-> evaluation.panicked,
             node |-> Node(Some(m), new_position, evaluation.moves,
                           {ScoreOf(i) : i \in evaluation.score}, evaluation.game_state, node.depth + 1)]
        moved(new_position) == built(new_position, evaluate(new_position))
    IN  IF make_move_panics(node.position, m)
        THEN [panicked |-> TRUE, node |-> node]
        ELSE moved(make_move(node.position, m))

get_node_children(tree, index) ==
    [k \in 1..Len(tree.values[index].available_moves) |->
        node_child(tree.values[index], tree.values[index].available_moves[k])]

\* the key of par_sort_by_key: the score of a fresh child is the i32 of its
\* evaluation, and both arms of the side_to_move test are the same
sort_key(node, playing_side) ==
    LET playing_multiplier == IF playing_side = WHITE THEN -1 ELSE 1
    IN  IF is_some(node.score)
        THEN playing_multiplier * unwrap(node.score).leaf * 1000
        ELSE IF playing_side = node.position.side_to_move THEN -1000 ELSE 1000

\* the permutation expand_node applies to the children: the stable sort by
\* key for DEFAULT, the shuffle for RANDOM (shuffle names the permutation
\* that thread_rng draws)
children_order(children, expand_style, playing_side, shuffle) ==
    IF expand_style = DEFAULT
    THEN stable_sort(Len(children),
            {pair \in (1..Len(children)) \X (1..Len(children)) :
                sort_key(children[pair[1]], playing_side)
                    < sort_key(children[pair[2]], playing_side)})
    ELSE [r \in 1..Len(children) |->
            IF shuffle = "reversed" THEN Len(children) + 1 - r ELSE r]

\* the loop of expand_node over the ordered children and the lines after it
insert_children(tree, index, children) ==
    LET n == values_len(tree)
        k == Len(children)
        has_score(child) == is_some(child.score)
        scored == SelectSeq(children, has_score)
        scores == [j \in 1..Len(scored) |-> unwrap(scored[j].score)]
    IN  [tree EXCEPT
            !.values = [i \in 0..(n + k - 1) |->
                            IF i >= n THEN children[i - n + 1]
                            ELSE IF i = index
                            THEN [tree.values[i] EXCEPT !.score = Some(Average(scores))]
                            ELSE tree.values[i]],
            !.parent = [i \in (DOMAIN tree.parent) \cup (n..(n + k - 1)) |->
                            IF i >= n THEN index ELSE tree.parent[i]],
            !.children = [i \in (DOMAIN tree.children) \cup {index} |->
                            IF i = index THEN [j \in 1..k |-> n + j - 1]
                            ELSE tree.children[i]],
            !.depth = IF k = 0 THEN 0 ELSE children[k].depth]

\* the result carries panicked = TRUE when make_move or evaluate panics for
\* one of the node's moves
expand_node(tree, index, expand_style, playing_side, shuffle) ==
    LET ordered(children) ==
            LET placed(order) == [r \in 1..Len(children) |-> children[order[r]]]
            IN  placed(children_order(children, expand_style, playing_side, shuffle))
        checked(made) ==
            IF \E k \in 1..Len(made) : made[k].panicked
            THEN [panicked |-> TRUE, tree |-> tree]
            ELSE [panicked |-> FALSE,
                  tree |-> insert_children(tree, index,
                                ordered([k \in 1..Len(made) |-> made[k].node]))]
    IN  checked(get_node_children(tree, index))

\* the order in which values.par_iter() yields the keys of the HashMap; it
\* depends on the hasher's random keys and is an input of the model
store_order(tree, iteration) ==
    [r \in 1..values_len(tree) |->
        IF iteration = "descending" THEN values_len(tree) - r ELSE r - 1]

get_all_nodes_to_expand(tree, iteration) ==
    LET is_check(i) ==
            tree.values[i].depth = tree.depth /\ tree.values[i].game_state = CHECK
        is_ongoing(i) ==
            tree.values[i].depth = tree.depth /\ tree.values[i].game_state = ONGOING
        truncated(nodes_at_depth) ==
            SubSeq(nodes_at_depth, 1, calculate_all_moves_to_expand(Len(nodes_at_depth)))
    IN  SelectSeq(store_order(tree, iteration), is_check)
        \o truncated(SelectSeq(store_order(tree, iteration), is_ongoing))

\* if !list.contains(&parent) { list.push(parent) } for the parent, if any,
\* of each node
RECURSIVE push_parents(_, _, _, _)
push_parents(tree, list, nodes, k) ==
    IF k > Len(nodes) THEN list
    ELSE push_parents(tree,
            IF /\ nodes[k] \in DOMAIN tree.parent
               /\ \A j \in 1..Len(list) : list[j] # tree.parent[nodes[k]]
            THEN Append(list, tree.parent[nodes[k]])
            ELSE list,
            nodes, k + 1)

\* get_score(child).unwrap() panics for a child without a score
backpropagate_panics(tree, parents) ==
    \E j \in 1..Len(parents) : \E c \in 1..Len(tree.children[parents[j]]) :
        is_none(tree.values[tree.children[parents[j]][c]].score)

\* one pass of the while loop: the scores are read before any is written
backpropagate_pass(tree, parents) ==
    LET is_parent(i) == \E j \in 1..Len(parents) : parents[j] = i
        scores(i) == [c \in 1..Len(tree.children[i]) |->
                        unwrap(tree.values[tree.children[i][c]].score)]
    IN  [tree EXCEPT !.values =
            [i \in DOMAIN tree.values |->
                IF is_parent(i) THEN [tree.values[i] EXCEPT !.score = Some(Average(scores(i)))]
                ELSE tree.values[i]]]

RECURSIVE backpropagate(_, _)
backpropagate(tree, parents) ==
    IF Len(parents) = 0 THEN [panicked |-> FALSE, tree |-> tree]
    ELSE IF backpropagate_panics(tree, parents) THEN [panicked |-> TRUE, tree |-> tree]
    ELSE backpropagate(backpropagate_pass(tree, parents), push_parents(tree, <<>>, parents, 1))

(***************************************************************************)
(* PositionTree::expand_to_depth, step by step.  A search is the tree, the *)
(* arguments of the call, the locals of the loop and the position of       *)
(* control: "while" at the loop test, "for" inside the loop over           *)
(* nodes_to_expand, "sort" after the loop, then "returned" or "panicked".  *)
(***************************************************************************)
\* the move of candidates for a pair of squares of a book, made
book_move(position, candidates, pair) ==
    make_move(position,
        candidates[CHOOSE i \in 1..Len(candidates) :
            candidates[i].translation = Some(Translation(pair[1], pair[2]))])

NoTree == [root |-> 0, parent |-> <<>>, children |-> <<>>, values |-> <<>>, depth |-> 0]

\* before the call: the position of the game and the moves still to be played
search_idle(moves, depth, expand_style, playing_side, iteration, shuffle) ==
    [pc |-> "player", position |-> Position_new, to_play |-> moves,
     tree |-> NoTree, depth |-> depth,
     expand_style |-> expand_style, playing_side |-> playing_side,
     iteration |-> iteration, shuffle |-> shuffle,
     nodes_to_expand |-> <<>>, parents_for_backpropagation |-> <<>>, moves |-> <<>>]

\* Game::make_move on the move parse_move finds for the next pair of squares
player_move(s) ==
    [s EXCEPT !.position = book_move(s.position, evaluate(s.position).moves, Head(s.to_play)),
              !.to_play = Tail(@)]

\* let mut tree = PositionTree::new(self.position); tree.expand_to_depth(..)
search_start(s) ==
    [s EXCEPT !.pc = "while", !.tree = PositionTree_new(s.position)]

\* while self.depth < depth { let nodes_to_expand = self.get_all_nodes_to_expand(); ...
loop_test(s) ==
    IF s.tree.depth < s.depth
    THEN [s EXCEPT !.pc = "for",
                   !.nodes_to_expand = get_all_nodes_to_expand(s.tree, s.iteration),
                   !.parents_for_backpropagation = <<>>]
    ELSE [s EXCEPT !.pc = "sort"]

\* the body of "for node in nodes_to_expand" for the next node
expand_next(s) ==
    LET expanded(node, result) ==
            IF result.panicked THEN [s EXCEPT !.pc = "panicked"]
            ELSE [s EXCEPT !.tree = result.tree,
                           !.nodes_to_expand = Tail(@),
                           !.parents_for_backpropagation = push_parents(result.tree, @, <<node>>, 1)]
    IN  expanded(Head(s.nodes_to_expand),
                 expand_node(s.tree, Head(s.nodes_to_expand), s.expand_style,
                             s.playing_side, s.shuffle))

\* self.backpropagate(parents_for_backpropagation), and back to the loop test
end_of_pass(s) ==
    LET propagated(result) ==
            IF result.panicked THEN [s EXCEPT !.pc = "panicked"]
            ELSE [s EXCEPT !.tree = result.tree, !.pc = "while"]
    IN  propagated(backpropagate(s.tree, s.parents_for_backpropagation))

\* the mutant of side_multiplier: the signs exchanged
side_multiplier_flipped(playing_side) == IF playing_side = WHITE THEN -1 ELSE 1

side_multiplier(playing_side) == IF playing_side = WHITE THEN 1 ELSE -1

\* the value partial_cmp compares for a child of the root
compared_score(tree, child, playing_side) ==
    LET times(value, multiplier) == <<value[1] * multiplier, value[2]>>
    IN  times(ScoreValue(unwrap(tree.values[child].score)), side_multiplier(playing_side))

\* get_children(0).unwrap(), get_score(..).unwrap() and partial_cmp(..).unwrap():
\* a sort of two or more children compares every one of them
finish_panics(tree, playing_side) ==
    \/ 0 \notin DOMAIN tree.children
    \/ /\ Len(tree.children[0]) >= 2
       /\ \E c \in 1..Len(tree.children[0]) :
            \/ is_none(tree.values[tree.children[0][c]].score)
            \/ is_nan(compared_score(tree, tree.children[0][c], playing_side))

\* children.sort_by(|a, b| score(b) * m .partial_cmp(score(a) * m)): a sorts
\* before b when score(b) * m is less than score(a) * m
sorted_root_children(tree, playing_side) ==
    LET children == tree.children[0]
        placed(order) == [r \in 1..Len(children) |-> children[order[r]]]
    IN  IF Len(children) < 2 THEN children
        ELSE placed(stable_sort(Len(children),
                {pair \in (1..Len(children)) \X (1..Len(children)) :
                    FractionLess(compared_score(tree, children[pair[2]], playing_side),
                                 compared_score(tree, children[pair[1]], playing_side))}))

\* the lines after the loop
finish(s) ==
    LET returned(children) ==
            [s EXCEPT !.pc = "returned",
                      !.moves = [r \in 1..calculate_all_moves_to_expand(Len(children)) |->
                                    unwrap(s.tree.values[children[r]].parent_move)]]
    IN  IF finish_panics(s.tree, s.playing_side) THEN [s EXCEPT !.pc = "panicked"]
        ELSE returned(sorted_root_children(s.tree, s.playing_side))

(***************************************************************************)
(* game.rs: the computer's turn builds a PositionTree on the position of   *)
(* the game and calls expand_to_depth.  The roots are positions of games   *)
(* from the new-game position; the target depth, the style, the playing    *)
(* side, the iteration order of the node store and the shuffle are inputs. *)
(***************************************************************************)
MaxNodes == 500

\* 1. e4 Nf6 2. a3
BookKnight == <<<<12, 28>>, <<62, 45>>, <<8, 16>>>>
\* the new game, the game after 1. e4 Nf6 2. a3 and the game after
\* 1. e4 f6 2. d4 g5 3. Qh5, where Black is mated
RootBooks == {<<>>, BookKnight, BookMate}
MaxTarget == 2
Targets == 0..MaxTarget
Iterations == {"ascending", "descending"}
Shuffles == {"kept", "reversed"}

InitTree ==
    /\ positions = <<Position_new>>
    /\ last_game_state = IN_PROGRESS
    /\ move_count = 0
    /\ eval = NoEval
    /\ random_move = None
    /\ book = <<>>
    /\ pc = "search"
    /\ repetition_stack = NoStack
    /\ ray_call = NoRay
    /\ \E moves \in RootBooks, depth \in Targets, expand_style \in ExpandStyles,
          playing_side \in Sides, iteration \in Iterations, shuffle \in Shuffles :
            /\ expand_style = DEFAULT => shuffle = "kept"
            /\ search = search_idle(moves, depth, expand_style, playing_side, iteration, shuffle)

main_vars == <<positions, last_game_state, move_count, eval, random_move, book, pc,
               repetition_stack, ray_call>>

PlayerMove ==
    /\ search.pc = "player"
    /\ Len(search.to_play) > 0
    /\ search' = player_move(search)
    /\ UNCHANGED main_vars

NewTree ==
    /\ search.pc = "player"
    /\ Len(search.to_play) = 0
    /\ search' = search_start(search)
    /\ UNCHANGED main_vars

LoopTest ==
    /\ search.pc = "while"
    /\ search' = loop_test(search)
    /\ UNCHANGED main_vars

ExpandNext ==
    /\ search.pc = "for"
    /\ Len(search.nodes_to_expand) > 0
    /\ values_len(search.tree) <= MaxNodes
    /\ search' = expand_next(search)
    /\ UNCHANGED main_vars

EndOfPass ==
    /\ search.pc = "for"
    /\ Len(search.nodes_to_expand) = 0
    /\ search' = end_of_pass(search)
    /\ UNCHANGED main_vars

Finish ==
    /\ search.pc = "sort"
    /\ search' = finish(search)
    /\ UNCHANGED main_vars

NextTree == PlayerMove \/ NewTree \/ LoopTest \/ ExpandNext \/ EndOfPass \/ Finish

SpecTree == InitTree /\ [][NextTree]_vars

(***************************************************************************)
(* One pass of the loop of expand_to_depth as a function of the state at   *)
(* the loop test: the test, the body for every node of nodes_to_expand,    *)
(* the backpropagation.                                                    *)
(***************************************************************************)
RECURSIVE run_for(_)
run_for(s) ==
    IF s.pc # "for" THEN s
    ELSE IF Len(s.nodes_to_expand) = 0 THEN end_of_pass(s)
    ELSE run_for(expand_next(s))

run_pass(s) == run_for(loop_test(s))

(***************************************************************************)
(* C17: expand_to_depth terminates for every root position and target      *)
(* depth.  The loop is a function of the tree, so it terminates only if no *)
(* pass that leaves the loop running leaves the tree as it found it: at    *)
(* the loop test, while the tree's depth is below the target, the next     *)
(* pass changes the tree or ends the call.                                 *)
(***************************************************************************)
C17_ExpandToDepthTerminates ==
    (search.pc = "while" /\ search.tree.depth < search.depth)
        => run_pass(search) # search

\* on the position where Black is mated the root has no move: a pass of the
\* loop has expanded it into no child, the tree's depth is still 0 and the
\* loop test holds again
C17_PassWithoutProgress ==
    /\ search.pc = "while"
    /\ search.tree.values[0].available_moves = <<>>
    /\ 0 \in DOMAIN search.tree.children
    /\ search.tree.children[0] = <<>>
    /\ search.tree.depth = 0
    /\ search.tree.depth < search.depth

(***************************************************************************)
(* C18: when expand_to_depth returns, its result is the parent_move of the *)
(* root's children ordered by score, highest first when the playing side   *)
(* is White and lowest first when it is Black, children of equal score in  *)
(* the order of the root's child list, cut to the first                    *)
(* min(4 * floor(sqrt(n)), n) of the n children.                           *)
(***************************************************************************)
RootChildren == search.tree.children[0]
RootChildScore(i) == ScoreValue(unwrap(search.tree.values[RootChildren[i]].score))

\* child i comes before child j
ComesBefore(i, j) ==
    \/ search.playing_side = WHITE /\ FractionLess(RootChildScore(j), RootChildScore(i))
    \/ search.playing_side = BLACK /\ FractionLess(RootChildScore(i), RootChildScore(j))
    \/ /\ ~FractionLess(RootChildScore(i), RootChildScore(j))
       /\ ~FractionLess(RootChildScore(j), RootChildScore(i))
       /\ i < j

PlaceOf(i) == 1 + Cardinality({j \in 1..Len(RootChildren) : j # i /\ ComesBefore(j, i)})

FloorSqrt(n) == CHOOSE k \in 0..n : k * k <= n /\ n < (k + 1) * (k + 1)

ResultLength(n) == IF 4 * FloorSqrt(n) < n THEN 4 * FloorSqrt(n) ELSE n

C18_ResultIsSortedPrefix ==
    search.pc = "returned" =>
        /\ Len(search.moves) = ResultLength(Len(RootChildren))
        /\ \A i \in 1..Len(RootChildren) :
                PlaceOf(i) <= Len(search.moves) =>
                    search.moves[PlaceOf(i)] = unwrap(search.tree.values[RootChildren[i]].parent_move)

\* a returned call for Black on a root with 22 children: 16 moves returned,
\* the first of them not the first child, a child placed before an earlier
\* one, and two children of equal score
C18_ReturnedForBlack ==
    /\ search.pc = "returned"
    /\ search.playing_side = BLACK
    /\ Len(RootChildren) = 22
    /\ Len(search.moves) = 16
    /\ PlaceOf(1) # 1
    /\ \E i, j \in 1..Len(RootChildren) :
            i < j /\ ~ComesBefore(i, j)
    /\ \E i, j \in 1..Len(RootChildren) :
            i < j /\ ~FractionLess(RootChildScore(i), RootChildScore(j))
                  /\ ~FractionLess(RootChildScore(j), RootChildScore(i))

(***************************************************************************)
(* A whole call of expand_to_depth as a function of the state at its first *)
(* loop test; used for a call whose loop ends within passes passes.        *)
(***************************************************************************)
RECURSIVE run_call(_, _)
run_call(s, passes) ==
    IF s.pc = "while" /\ s.tree.depth < s.depth /\ passes > 0
    THEN run_call(run_pass(s), passes - 1)
    ELSE IF s.pc = "while" THEN finish(loop_test(s))
    ELSE s

\* the call of s made again, on a new tree of the same position with the
\* same target, style and playing side, the node store iterated in the
\* order iteration
called_again(s, iteration) ==
    [search_start(s) EXCEPT !.iteration = iteration, !.nodes_to_expand = <<>>,
                            !.parents_for_backpropagation = <<>>, !.moves = <<>>]

(***************************************************************************)
(* C19: with ExpandStyle::DEFAULT two calls of expand_to_depth on trees of *)
(* the same position, with the same target depth and playing side, return  *)
(* the same sequence of moves, whatever the order the node store is        *)
(* iterated in.                                                            *)
(***************************************************************************)
C19_DefaultStyleIsDeterministic ==
    (search.pc = "returned" /\ search.expand_style = DEFAULT) =>
        \A iteration \in Iterations :
            run_call(called_again(search, iteration), search.depth).moves = search.moves

\* two returned calls for White from 1. e4 Nf6 2. a3 to depth 2 whose first
\* moves differ
C19_OrderChangesResult ==
    /\ search.pc = "returned"
    /\ search.expand_style = DEFAULT
    /\ search.depth = 2
    /\ search.iteration = "ascending"
    /\ run_call(called_again(search, "descending"), search.depth).pc = "returned"
    /\ run_call(called_again(search, "descending"), search.depth).moves # search.moves

(***************************************************************************)
(* ZobristMoveStack on its own: add called again and again on a new stack. *)
(* The hash of the k-th call is an input: all hashes different (period 0), *)
(* or hashes that come again every period calls, as the positions of a     *)
(* game do.                                                                *)
(***************************************************************************)
MaxAdds == 200
Periods == 0..3

\* a hash that is not 0, one for each k
StackHash(k) == {<<3, k, 0, 0>>}

next_hash(run) ==
    IF run.period = 0 THEN StackHash(Len(run.added) + 1)
    ELSE StackHash((Len(run.added) + 1) % run.period)

stack_add(run, zobrist_hash) ==
    [run EXCEPT !.stack = add(run.stack, zobrist_hash),
                !.added = Append(run.added, zobrist_hash)]

InitStack ==
    /\ positions = <<Position_new>>
    /\ last_game_state = IN_PROGRESS
    /\ move_count = 0
    /\ eval = NoEval
    /\ random_move = None
    /\ book = <<>>
    /\ pc = "stack"
    /\ search = NoSearch
    /\ ray_call = NoRay
    /\ \E period \in Periods :
            repetition_stack = [stack |-> ZobristMoveStack_new, added |-> <<>>, period |-> period]

Add ==
    /\ pc = "stack"
    /\ Len(repetition_stack.added) < MaxAdds
    /\ repetition_stack' = stack_add(repetition_stack, next_hash(repetition_stack))
    /\ UNCHANGED <<positions, last_game_state, move_count, eval, random_move, book, pc, search,
                   ray_call>>

NextStack == Add

SpecStack == InitStack /\ [][NextStack]_vars

(***************************************************************************)
(* C20: the repetition stack is a FIFO of capacity 100: after n calls of   *)
(* add on a new stack the stored hashes are exactly the last min(n, 100)   *)
(* hashes added, in the order they were added.                             *)
(***************************************************************************)
\* the hashes the stack holds after n calls: the first n slots while fewer
\* than 100 were added, all the slots from then on
StoredHashes(run) ==
    IF Len(run.added) < MAX_ZOBRIST_ARRAY_SIZE
    THEN SubSeq(run.stack.zobrist_array, 1, Len(run.added))
    ELSE run.stack.zobrist_array

LastAdded(run) ==
    IF Len(run.added) < MAX_ZOBRIST_ARRAY_SIZE THEN run.added
    ELSE SubSeq(run.added, Len(run.added) - MAX_ZOBRIST_ARRAY_SIZE + 1, Len(run.added))

C20_StackIsFifoOfHundred ==
    pc = "stack" => StoredHashes(repetition_stack) = LastAdded(repetition_stack)

\* after 100 calls with hashes all different: the first hash is gone, the
\* slot before the last holds the 0 of the slot never written, and the
\* last slot holds the 100th hash
C20_FirstHashGoneAtHundred ==
    /\ pc = "stack"
    /\ repetition_stack.period = 0
    /\ Len(repetition_stack.added) = MAX_ZOBRIST_ARRAY_SIZE
    /\ repetition_stack.stack.zobrist_array[1] = repetition_stack.added[2]
    /\ repetition_stack.stack.zobrist_array[MAX_ZOBRIST_ARRAY_SIZE - 1] = ZERO_HASH
    /\ repetition_stack.stack.zobrist_array[MAX_ZOBRIST_ARRAY_SIZE] =
            repetition_stack.added[MAX_ZOBRIST_ARRAY_SIZE]

(***************************************************************************)
(* C21: for every hash h and every stack reached by calls of add,          *)
(* get_repetitions(h) is the number of hashes equal to h among those added *)
(* and not yet shifted out; 0 for a hash never added.                      *)
(***************************************************************************)
\* the slots that hold the 0 they were made with: those not yet written,
\* and from the 100th call to the 198th the one the shift copied down
UnwrittenSlots(run) ==
    IF Len(run.added) < MAX_ZOBRIST_ARRAY_SIZE
    THEN (Len(run.added) + 1)..MAX_ZOBRIST_ARRAY_SIZE
    ELSE {i \in 1..MAX_ZOBRIST_ARRAY_SIZE : i = 2 * MAX_ZOBRIST_ARRAY_SIZE - 1 - Len(run.added)}

\* how many of the hashes added and still in the array equal zobrist_hash
KeptCount(run, zobrist_hash) ==
    Cardinality({i \in (1..MAX_ZOBRIST_ARRAY_SIZE) \ UnwrittenSlots(run) :
                    run.stack.zobrist_array[i] = zobrist_hash})

\* the hashes asked for: four that are added, one never added, and 0
ProbedHashes == {StackHash(k) : k \in 0..3} \cup {StackHash(MaxAdds + 1), ZERO_HASH}

C21_RepetitionsIsTheCount ==
    pc = "stack" =>
        \A h \in ProbedHashes :
            get_repetitions(repetition_stack.stack, h) = KeptCount(repetition_stack, h)

\* C21 amended: for every hash other than 0 the result is that number up
\* to 3 and 3 from then on, and the slots outside UnwrittenSlots hold the
\* last hashes added
C21_RepetitionsIsTheCountUpToThree ==
    pc = "stack" =>
        /\ \A h \in ProbedHashes \ {ZERO_HASH} :
                get_repetitions(repetition_stack.stack, h) =
                    IF KeptCount(repetition_stack, h) >= 3 THEN 3
                    ELSE KeptCount(repetition_stack, h)
        /\ \A i \in (1..MAX_ZOBRIST_ARRAY_SIZE) \ UnwrittenSlots(repetition_stack) :
                \E k \in 1..Len(repetition_stack.added) :
                    /\ repetition_stack.stack.zobrist_array[i] = repetition_stack.added[k]
                    /\ Len(repetition_stack.added) - k < MAX_ZOBRIST_ARRAY_SIZE

\* the same hash added four times: four are kept, 3 is returned
C21_FourKeptThreeReturned ==
    /\ pc = "stack"
    /\ repetition_stack.period = 1
    /\ Len(repetition_stack.added) = 4
    /\ KeptCount(repetition_stack, StackHash(0)) = 4
    /\ get_repetitions(repetition_stack.stack, StackHash(0)) = 3

(***************************************************************************)
(* get_ray_between_squares on its own: called for every pair of squares.   *)
(***************************************************************************)
InitRay ==
    /\ positions = <<Position_new>>
    /\ last_game_state = IN_PROGRESS
    /\ move_count = 0
    /\ eval = NoEval
    /\ random_move = None
    /\ book = <<>>
    /\ pc = "ray"
    /\ search = NoSearch
    /\ repetition_stack = NoStack
    /\ \E from \in Squares, to \in Squares :
            ray_call = [pc |-> "call", from |-> from, to |-> to, squares_between |-> EMPTY]

GetRay ==
    /\ pc = "ray"
    /\ ray_call.pc = "call"
    /\ ray_call' = [ray_call EXCEPT !.pc = "returned",
                        !.squares_between = get_ray_between_squares(ray_call.from, ray_call.to)]
    /\ UNCHANGED <<positions, last_game_state, move_count, eval, random_move, book, pc, search,
                   repetition_stack>>

NextRay == GetRay

SpecRay == InitRay /\ [][NextRay]_vars

(***************************************************************************)
(* C22: for all squares a and b, get_ray_between_squares(a, b) is the set  *)
(* of the squares strictly between a and b when they are different and     *)
(* share a rank, a file or a diagonal, and is empty when a = b or when     *)
(* they share none.                                                        *)
(***************************************************************************)
C22_RayIsTheOpenSegment ==
    (pc = "ray" /\ ray_call.pc = "returned") =>
        ray_call.squares_between =
            IF OnOneLine(ray_call.from, ray_call.to)
            THEN StrictlyBetween(ray_call.from, ray_call.to)
            ELSE EMPTY

\* from a1 to d3, which share no line, the call returns b2
C22_SquareBetweenA1AndD3 ==
    /\ pc = "ray"
    /\ ray_call.pc = "returned"
    /\ ray_call.from = 0
    /\ ray_call.to = 19
    /\ ~OnOneLine(ray_call.from, ray_call.to)
    /\ ray_call.squares_between = {9}

(***************************************************************************)
(* C23: evaluate returns a castling move only when the side to move is not *)
(* in check, holds the right, every square strictly between its king and   *)
(* that rook is empty of pieces of both colours, and no square the king    *)
(* stands on, crosses or lands on is attacked by the opponent.             *)
(***************************************************************************)
HomeOf(side) == IF side = WHITE THEN 4 ELSE 60

HoldsRight(position, side, direction) ==
    IF direction = KING_SIDE
    THEN (IF side = WHITE THEN position.castling_rights.white_king_side
          ELSE position.castling_rights.black_king_side)
    ELSE (IF side = WHITE THEN position.castling_rights.white_queen_side
          ELSE position.castling_rights.black_queen_side)

BetweenKingAndRook(side, direction) ==
    IF direction = KING_SIDE THEN {HomeOf(side) + 1, HomeOf(side) + 2}
    ELSE {HomeOf(side) - 1, HomeOf(side) - 2, HomeOf(side) - 3}

KingPath(side, direction) ==
    IF direction = KING_SIDE THEN {HomeOf(side), HomeOf(side) + 1, HomeOf(side) + 2}
    ELSE {HomeOf(side), HomeOf(side) - 1, HomeOf(side) - 2}

CastlingIsDue(position, direction) ==
    /\ ~KingAttacked(position.pieces, position.side_to_move)
    /\ HoldsRight(position, position.side_to_move, direction)
    /\ BetweenKingAndRook(position.side_to_move, direction) \cap AllOccupied(position.pieces) = {}
    /\ \A square \in KingPath(position.side_to_move, direction) :
            ~IsAttacked(position.pieces, Not(position.side_to_move), square)

C23_CastlingOnlyWhenDue ==
    Evaluated =>
        \A i \in 1..Len(eval.moves) :
            is_some(eval.moves[i].castling) =>
                CastlingIsDue(last_position, unwrap(eval.moves[i].castling))

\* after 1. Nc3 Nc6 2. d4 Nb4 3. Bf4 Nxa2 4. Qd2 Nc1 a black knight stands
\* on c1 and evaluate returns White's queen-side castling
C23_CastlingOverKnightOnC1 ==
    /\ Evaluated
    /\ book = BookKnightOnC1
    /\ move_count = 8
    /\ 2 \in last_position.pieces[BLACK][KNIGHT]
    /\ \E i \in 1..Len(eval.moves) : eval.moves[i].castling = Some(QUEEN_SIDE)

(***************************************************************************)
(* C24: in every position that is not a draw, in check or not, the king    *)
(* moves evaluate returns go to exactly the squares next to the king that  *)
(* hold no own piece and that the enemy does not attack on the board with  *)
(* the moving king taken off.                                              *)
(***************************************************************************)
KingSquareOf(position) == CHOOSE king \in position.pieces[position.side_to_move][KING] : TRUE

KingTargets(position) ==
    {to \in Squares :
        /\ PieceAttacks(position.pieces, position.side_to_move, KING, KingSquareOf(position), to)
        /\ to \notin occupancy_of(position.pieces[position.side_to_move])
        /\ ~IsAttacked([position.pieces EXCEPT ![position.side_to_move][KING] = {}],
                       Not(position.side_to_move), to)}

KingMovesReturned(position, moves) ==
    {unwrap(moves[i].translation).to :
        i \in {j \in 1..Len(moves) :
                /\ is_some(moves[j].translation)
                /\ unwrap(moves[j].translation).from = KingSquareOf(position)}}

C24_KingMovesAreTheKingTargets ==
    (Evaluated /\ eval.game_state # DRAW /\ last_position.pieces[last_position.side_to_move][KING] # {})
        => KingMovesReturned(last_position, eval.moves) = KingTargets(last_position)

\* after 1. d3 e6 White is not in check, d2 is free for the king, and no
\* move of the king is returned
C24_NoKingMoveWithoutCheck ==
    /\ Evaluated
    /\ book = BookPin
    /\ move_count = 2
    /\ ~KingAttacked(last_position.pieces, WHITE)
    /\ KingTargets(last_position) = {11}
    /\ KingMovesReturned(last_position, eval.moves) = {}

(***************************************************************************)
(* C25: for each of the four directions, get_absolute_pins_for_side marks  *)
(* a piece of the defender in the pins of that direction exactly when it   *)
(* is pinned along it: it stands on the king's line in that direction, no  *)
(* piece stands between it and the king, and some enemy rook, bishop or    *)
(* queen that moves along the direction attacks it from the far side.      *)
(***************************************************************************)
\* the direction of the line two different squares share, if any
DirectionOf(a, b) ==
    IF a = b THEN "none"
    ELSE IF RankOf(a) = RankOf(b) THEN "h"
    ELSE IF FileOf(a) = FileOf(b) THEN "v"
    ELSE IF FileOf(a) + RankOf(a) = FileOf(b) + RankOf(b) THEN "dd"
    ELSE IF FileOf(a) - RankOf(a) = FileOf(b) - RankOf(b) THEN "da"
    ELSE "none"

SlidersAlong(direction) == IF direction \in {"h", "v"} THEN {ROOK, QUEEN} ELSE {BISHOP, QUEEN}

PinnedAlong(position, direction) ==
    LET us == position.side_to_move
        king == KingSquareOf(position)
        all == AllOccupied(position.pieces)
    IN  {square \in occupancy_of(position.pieces[us]) :
            /\ DirectionOf(king, square) = direction
            /\ StrictlyBetween(king, square) \cap all = {}
            /\ \E piece \in SlidersAlong(direction) : \E slider \in position.pieces[Not(us)][piece] :
                    /\ DirectionOf(king, slider) = direction
                    /\ square \in StrictlyBetween(king, slider)
                    /\ StrictlyBetween(square, slider) \cap all = {}}

\* the pins evaluate computes for the side to move
PinsOf(position) ==
    get_absolute_pins_for_side(
        get_side_attacks(position, Not(position.side_to_move), AllOccupied(position.pieces)),
        occupancy_of(position.pieces[position.side_to_move]),
        KingSquareOf(position))

PinsAre(pins, position) ==
    /\ pins.pins_h = PinnedAlong(position, "h")
    /\ pins.pins_v = PinnedAlong(position, "v")
    /\ pins.pins_dd = PinnedAlong(position, "dd")
    /\ pins.pins_da = PinnedAlong(position, "da")

C25_PinsAreTheAbsolutePins ==
    (Evaluated /\ last_position.pieces[last_position.side_to_move][KING] # {})
        => PinsAre(PinsOf(last_position), last_position)

\* after 1. d3 e6 2. Nc3 Bb4 the knight on c3 is pinned on the descending
\* diagonal by the bishop on b4, and pins_dd is empty
C25_PinnedKnightNotMarked ==
    /\ Evaluated
    /\ book = BookPin
    /\ move_count = 4
    /\ PinnedAlong(last_position, "dd") = {18}
    /\ PinsOf(last_position).pins_dd = {}

(***************************************************************************)
(* C26: a move evaluate returns carries a promotion piece exactly when it  *)
(* is a pawn move whose destination is on the last rank (rank 8 for White, *)
(* rank 1 for Black); then the four variants queen, rook, bishop and       *)
(* knight are returned for its squares, and make_move of such a move takes *)
(* the pawn off and puts the promoted piece on the destination.            *)
(***************************************************************************)
LastRank(side) == IF side = WHITE THEN 7 ELSE 0

\* m moves a pawn of the side to move onto its last rank
PawnReachesLastRank(position, m) ==
    /\ is_some(m.translation)
    /\ unwrap(m.translation).from \in position.pieces[position.side_to_move][PAWN]
    /\ RankOf(unwrap(m.translation).to) = LastRank(position.side_to_move)

PromotionsAsDue(position, moves) ==
    \A i \in 1..Len(moves) :
        /\ is_some(moves[i].promotion) <=> PawnReachesLastRank(position, moves[i])
        /\ is_some(moves[i].promotion) =>
                \A piece \in {QUEEN, ROOK, BISHOP, KNIGHT} :
                    \E j \in 1..Len(moves) :
                        /\ moves[j].translation = moves[i].translation
                        /\ moves[j].promotion = Some(piece)

PromotionMade(before, m, after) ==
    /\ unwrap(m.translation).from \notin after.pieces[before.side_to_move][PAWN]
    /\ unwrap(m.translation).to \notin after.pieces[before.side_to_move][PAWN]
    /\ unwrap(m.translation).to \in after.pieces[before.side_to_move][unwrap(m.promotion)]

C26_PromotionOnLastRankOnly ==
    /\ Evaluated => PromotionsAsDue(last_position, eval.moves)
    /\ (Moved /\ is_some(played.promotion)) =>
            PromotionMade(previous_position, played, last_position)

\* after 1. e4 d5 2. Bb5+ Black has answered c7-c6 with a promotion: a
\* black queen stands on c6
C26_QueenOnC6 ==
    /\ Moved
    /\ book = BookBishopCheck
    /\ move_count = 4
    /\ played = Move(Some(Translation(50, 42)), Some(QUEEN), None, None, None)
    /\ 50 \in previous_position.pieces[BLACK][PAWN]
    /\ 42 \in last_position.pieces[BLACK][QUEEN]

(***************************************************************************)
(* C27: in each pass of expand_to_depth the nodes expanded are every node  *)
(* at the tree's depth whose state is CHECK and at most                    *)
(* min(4 * floor(sqrt(k)), k) of the k nodes at that depth whose state is  *)
(* ONGOING; no node whose position is CHECKMATE or DRAW is expanded, the   *)
(* root included.                                                          *)
(***************************************************************************)
NodesAtDepth(tree, game_state) ==
    {i \in DOMAIN tree.values :
        tree.values[i].depth = tree.depth /\ tree.values[i].game_state = game_state}

SelectionAsDue(tree, nodes) ==
    LET chosen == {nodes[k] : k \in 1..Len(nodes)}
    IN  /\ Cardinality(chosen) = Len(nodes)
        /\ NodesAtDepth(tree, CHECK) \subseteq chosen
        /\ chosen \subseteq NodesAtDepth(tree, CHECK) \cup NodesAtDepth(tree, ONGOING)
        /\ Cardinality(chosen \cap NodesAtDepth(tree, ONGOING))
                <= ResultLength(Cardinality(NodesAtDepth(tree, ONGOING)))
        /\ \A i \in chosen :
                evaluate(tree.values[i].position).game_state \notin {CHECKMATE, DRAW}

C27_OnlyLiveNodesExpanded ==
    (search.pc = "while" /\ search.tree.depth < search.depth)
        => SelectionAsDue(search.tree, loop_test(search).nodes_to_expand)

\* the root is the position where Black is mated, and it is the node the
\* pass is about to expand
C27_MatedRootSelected ==
    /\ search.pc = "for"
    /\ search.nodes_to_expand = <<0>>
    /\ evaluate(search.tree.values[0].position).game_state = CHECKMATE

(***************************************************************************)
(* C28: after every completed pass of expand_to_depth (the expansions and  *)
(* then backpropagate) every node that has children attached has a score   *)
(* equal to the arithmetic mean of the scores its immediate children have  *)
(* then: it is the sum of those scores divided by their number, and it is  *)
(* a number (a NaN equals nothing).                                        *)
(***************************************************************************)
RECURSIVE ScoreIsNaN(_)
ScoreIsNaN(score) ==
    /\ ~score.is_leaf
    /\ \/ score.avg_of = <<>>
       \/ \E k \in 1..Len(score.avg_of) : ScoreIsNaN(score.avg_of[k])

ChildScores(tree, p) ==
    [c \in 1..Len(tree.children[p]) |-> unwrap(tree.values[tree.children[p][c]].score)]

\* the score of p is the sum of the scores its children have now, divided by
\* their number, and it is a number
IsMeanOfChildren(tree, p) ==
    /\ is_some(tree.values[p].score)
    /\ \A c \in 1..Len(tree.children[p]) : is_some(tree.values[tree.children[p][c]].score)
    /\ unwrap(tree.values[p].score) = Average(ChildScores(tree, p))
    /\ ~ScoreIsNaN(unwrap(tree.values[p].score))

PassCompleted == search.pc = "while" /\ DOMAIN search.tree.children # {}

C28_ScoresAreMeansAfterPass ==
    PassCompleted
        => \A p \in DOMAIN search.tree.children :
                Len(search.tree.children[p]) > 0 => IsMeanOfChildren(search.tree, p)

\* a pass is over in which a node without moves was expanded: its score is
\* 0.0 / 0.0, and the root's score, the quotient over its children, is no number
C28_RootScoreIsNaN ==
    /\ PassCompleted
    /\ Len(search.tree.children[0]) > 0
    /\ \E c \in DOMAIN search.tree.children :
            /\ search.tree.children[c] = <<>>
            /\ search.tree.parent[c] = 0
            /\ unwrap(search.tree.values[c].score) = Average(<<>>)
    /\ unwrap(search.tree.values[0].score) = Average(ChildScores(search.tree, 0))
    /\ ScoreIsNaN(unwrap(search.tree.values[0].score))

(***************************************************************************)
(* The same search in a game built by Game::from_fen: the player, in check *)
(* on g8, answers Kh8, and the tree is built on the position where White   *)
(* has the king on f6 and the queen on g1; after Qg6 Black is stalemated.  *)
(***************************************************************************)
\* 6k1/8/5K2/8/8/8/8/6Q1 b - - 0 1
FenQueenEnding == from_fen(<<<<"6","k","1">>, E8, <<"5","K","2">>, E8, E8, E8, E8, <<"6","Q","1">>>>,
                           "b", {}, None, 0, 1)
\* Kg8-h8
BookKingToCorner == <<<<62, 63>>>>

InitTreeFen ==
    /\ positions = <<FenQueenEnding>>
    /\ last_game_state = IN_PROGRESS
    /\ move_count = 0
    /\ eval = NoEval
    /\ random_move = None
    /\ book = <<>>
    /\ pc = "search"
    /\ repetition_stack = NoStack
    /\ ray_call = NoRay
    /\ \E depth \in Targets, expand_style \in ExpandStyles,
          playing_side \in Sides, iteration \in Iterations, shuffle \in Shuffles :
            /\ expand_style = DEFAULT => shuffle = "kept"
            /\ search = [search_idle(BookKingToCorner, depth, expand_style, playing_side,
                                     iteration, shuffle)
                            EXCEPT !.position = FenQueenEnding]

SpecTreeFen == InitTreeFen /\ [][NextTree]_vars

(***************************************************************************)
(* C29: after every expand_node call and every pass of expand_to_depth the *)
(* tree's depth is the greatest depth of a node of the tree, also when the *)
(* expanded node has no available move.                                    *)
(***************************************************************************)
MaxDepth(tree) ==
    CHOOSE d \in {tree.values[i].depth : i \in DOMAIN tree.values} :
        \A i \in DOMAIN tree.values : tree.values[i].depth <= d

SomeNodeExpanded ==
    /\ search.pc \in {"for", "while", "sort", "returned"}
    /\ DOMAIN search.tree.children # {}

C29_DepthIsTheMaximumDepth ==
    SomeNodeExpanded => search.tree.depth = MaxDepth(search.tree)

\* a node below the root where the side to move is stalemated was expanded,
\* and the tree's depth is 0 again
C29_DepthResetByStalemate ==
    /\ SomeNodeExpanded
    /\ search.tree.depth = 0
    /\ \E i \in DOMAIN search.tree.children :
            /\ search.tree.values[i].depth >= 1
            /\ search.tree.values[i].available_moves = <<>>
            /\ ~KingAttacked(search.tree.values[i].position.pieces,
                             search.tree.values[i].position.side_to_move)
            /\ LegalMoves(search.tree.values[i].position) = {}

(***************************************************************************)
(* C30: the maps of the tree stay consistent during a call: the node ids   *)
(* are 0..n-1, no node that has its children list is expanded again, and   *)
(* c is in children[p] exactly when parent[c] = p, with c one level below  *)
(* p.                                                                      *)
(***************************************************************************)
IsChildOf(tree, c, p) ==
    p \in DOMAIN tree.children /\ \E k \in 1..Len(tree.children[p]) : tree.children[p][k] = c

MapsAreConsistent(tree) ==
    /\ DOMAIN tree.values = 0..(values_len(tree) - 1)
    /\ DOMAIN tree.parent \subseteq DOMAIN tree.values
    /\ DOMAIN tree.children \subseteq DOMAIN tree.values
    /\ \A p \in DOMAIN tree.values : \A c \in DOMAIN tree.values :
            IsChildOf(tree, c, p) <=> (c \in DOMAIN tree.parent /\ tree.parent[c] = p)
    /\ \A c \in DOMAIN tree.parent :
            tree.values[c].depth = tree.values[tree.parent[c]].depth + 1

C30_MapsStayConsistent ==
    search.pc \in {"while", "for", "sort", "returned"}
        => /\ MapsAreConsistent(search.tree)
           /\ search.pc = "for"
                => \A k \in 1..Len(search.nodes_to_expand) :
                        search.nodes_to_expand[k] \notin DOMAIN search.tree.children

\* the mated root, expanded in an earlier pass, is about to be expanded again
C30_RootExpandedAgain ==
    /\ search.pc = "for"
    /\ Len(search.nodes_to_expand) > 0
    /\ Head(search.nodes_to_expand) = 0
    /\ 0 \in DOMAIN search.tree.children
    /\ search.tree.values[0].available_moves = <<>>
====
